---- MODULE Spec2Model ----
(***************************************************************************)
(* A model of the semantic-similarity rating engine of ssr-agent:          *)
(*   src/src/ssr/scorer.ts         cosineSimilarity, similarityToPmf,      *)
(*                                 SsrScorer (anchor cache, scoreAnswer)   *)
(*   src/src/ssr/score-answers.ts  scoreAllAnswers (batch scoring)         *)
(*   src/src/ssr/voyage-provider.ts  VoyageProvider (embed, its memo)      *)
(*   src/src/cli.ts                executeRun (scoring step and CI step)   *)
(*   the agent runner              runAgent (tool loop, browser tools)     *)
(*   the MCP browser server        setPageAndContext, browser_observe,     *)
(*                                 browser_act, browser_assert, browser_end*)
(*                                                                         *)
(* JavaScript numbers are modelled in fixed point: the real r is the       *)
(* integer r * SCALE, and every arithmetic step rounds toward minus        *)
(* infinity.  Every embed call is a suspension point of the caller; the    *)
(* code between two suspension points runs as one atomic action.           *)
(***************************************************************************)
EXTENDS Integers, Sequences, FiniteSets, TLC

(***************************************************************************)
(* Fixed-point arithmetic.                                                 *)
(***************************************************************************)
\* one unit of the model's numbers is 1/SCALE
SCALE == 10000
\* the Taylor terms Exp sums and the fraction bits Log2 extracts
ExpTerms == 14
Log2Bits == 13

RECURSIVE Pow2(_)
Pow2(n) == IF n = 0 THEN 1 ELSE 2 * Pow2(n - 1)

RECURSIVE SumSeq(_)
SumSeq(s) == IF s = <<>> THEN 0 ELSE Head(s) + SumSeq(Tail(s))

RECURSIVE MaxSeq(_)
MaxSeq(s) == IF Len(s) = 1 THEN s[1]
             ELSE LET m == MaxSeq(Tail(s)) IN IF s[1] > m THEN s[1] ELSE m

\* floor(sqrt(n)) by bisection
RECURSIVE ISqrtIn(_, _, _)
ISqrtIn(n, lo, hi) ==
    IF lo >= hi THEN lo
    ELSE LET mid == (lo + hi + 1) \div 2
         IN IF mid * mid <= n THEN ISqrtIn(n, mid, hi) ELSE ISqrtIn(n, lo, mid - 1)

\* Math.sqrt of a small non-negative integer, in fixed point
SqrtFx(n) == ISqrtIn(n * SCALE * SCALE, 0, 46340)

\* Math.exp(x) for a fixed-point x <= 0: the Taylor series of e^x
RECURSIVE ExpSeries(_, _, _, _)
ExpSeries(x, k, term, acc) ==
    IF k > ExpTerms THEN acc
    ELSE LET t == (term * x) \div (k * SCALE)
         IN ExpSeries(x, k + 1, t, acc + t)

\* Math.exp(x) is exactly 0 for x below -745.13 (the smallest double is
\* about e^-745)
ExpUnderflow == 745

\* below -2 the argument is halved and the result squared; a result below
\* 1/SCALE rounds to 0
RECURSIVE ExpFx(_)
ExpFx(x) ==
    IF x < -(ExpUnderflow * SCALE) THEN 0
    ELSE IF x < -(2 * SCALE)
    THEN LET h == ExpFx(x \div 2) IN (h * h) \div SCALE
    ELSE LET e == ExpSeries(x, 1, SCALE, SCALE) IN IF e < 0 THEN 0 ELSE e

\* Math.log2(p) for a fixed-point p > 0: shift p into [1, 2), then extract the
\* fraction bits by repeated squaring
RECURSIVE Log2Norm(_, _)
Log2Norm(y, n) ==
    IF y < SCALE THEN Log2Norm(2 * y, n - 1)
    ELSE IF y >= 2 * SCALE THEN Log2Norm(y \div 2, n + 1)
    ELSE <<y, n>>

RECURSIVE Log2Frac(_, _, _)
Log2Frac(y, b, acc) ==
    IF b > Log2Bits THEN acc
    ELSE LET sq == (y * y) \div SCALE
         IN IF sq >= 2 * SCALE
            THEN Log2Frac(sq \div 2, b + 1, acc + SCALE \div Pow2(b))
            ELSE Log2Frac(sq, b + 1, acc)

Log2Fx(p) == LET yn == Log2Norm(p, 0)
             IN yn[2] * SCALE + Log2Frac(yn[1], 1, 0)

(***************************************************************************)
(* VectorMath: scorer.ts cosineSimilarity and similarityToPmf.            *)
(* An embedding is a sequence of small integers.                           *)
(***************************************************************************)
RECURSIVE Dot(_, _)
Dot(a, b) == IF a = <<>> THEN 0 ELSE a[1] * b[1] + Dot(Tail(a), Tail(b))

\* a cosineSimilarity that takes vectors of any two lengths
cosineSimilarityUnchecked(vecA, vecB) == [threw |-> FALSE, value |-> 0]

\* [threw |-> TRUE] stands for the thrown "Vectors must have the same length"
cosineSimilarity(vecA, vecB) ==
    IF Len(vecA) # Len(vecB) THEN [threw |-> TRUE, value |-> 0]
    ELSE LET dotProduct == Dot(vecA, vecB)
             normA == Dot(vecA, vecA)
             normB == Dot(vecB, vecB)
             denominator == (SqrtFx(normA) * SqrtFx(normB)) \div SCALE
         IN IF denominator = 0 THEN [threw |-> FALSE, value |-> 0]
            ELSE [threw |-> FALSE,
                  value |-> (dotProduct * SCALE * SCALE) \div denominator]

similarityToPmf(similarities, eps, temp) ==
    LET n == Len(similarities)
        scaledSims == [k \in 1..n |-> (similarities[k] * SCALE) \div temp]
        maxSim == MaxSeq(scaledSims)
        expSims == [k \in 1..n |-> ExpFx(scaledSims[k] - maxSim)]
        sum == SumSeq(expSims) + eps * n
        pmf == [k \in 1..n |-> ((expSims[k] + eps) * SCALE) \div sum]
        pmfSum == SumSeq(pmf)
    IN [k \in 1..n |-> (pmf[k] * SCALE) \div pmfSum]

(***************************************************************************)
(* Texts and the anchor catalog.  A statement of the catalog stands as     *)
(* <<origin, questionType, anchorSetIndex, level>>, an answer text as      *)
(* <<"answer", text, 0, 0>>.                                               *)
(***************************************************************************)
\* the anchor sets the shipped catalog holds per question type
DefaultSetCount == 6
\* the anchor sets of "ease" in the catalog a caller passes to the constructor
MaxSets == 2

Levels == 1..5

AnchorSetOf(origin, qt, index) == [level \in Levels |-> <<origin, qt, index, level>>]

DEFAULT_ANCHOR_SETS ==
    [qt \in {"ease", "trust"} |->
        [s \in 1..DefaultSetCount |-> AnchorSetOf("default", qt, s - 1)]]

\* options.anchorSets of a caller: "ease" with MaxSets sets, "trust" and
\* "ease:1" with one, "empty" with an empty list
CustomAnchorSets ==
    [qt \in {"ease", "trust", "ease:1", "empty"} |->
        CASE qt = "ease" -> [s \in 1..MaxSets |-> AnchorSetOf("custom", qt, s - 1)]
          [] qt \in {"trust", "ease:1"} -> <<AnchorSetOf("custom", qt, 0)>>
          [] OTHER -> <<>>]

\* this.anchorSets refers to one of the two catalog objects
CatalogOf(ref) == IF ref = "DEFAULT_ANCHOR_SETS" THEN DEFAULT_ANCHOR_SETS
                  ELSE CustomAnchorSets

\* the answers a caller gives: for "void" the backends return the all-zero
\* vector
AnswerTexts == {"fine", "text", "void"}
AnswerText(t) == <<"answer", t, 0, 0>>

\* A JavaScript property read obj[key] on a plain object finds the object's own
\* property or else the member Object.prototype has under that name:
\* "constructor" is the function Object (truthy, length 1, no indexed element),
\* "__proto__" is Object.prototype itself (truthy, no length).  The value read
\* is [truthy, length (<<n>>, or <<>> for undefined), items].
ObjectFunctionKey == "function Object() { [native code] }"
ObjectPrototypeKey == "[object Object]"
PrototypeMembers == {"constructor", "__proto__"}

Undefined == [truthy |-> FALSE, length |-> <<>>, items |-> <<>>]

CatalogGet(catalog, qt) ==
    IF qt \in DOMAIN catalog
    THEN [truthy |-> TRUE, length |-> <<Len(catalog[qt])>>, items |-> catalog[qt]]
    ELSE IF qt = "constructor"
    THEN [truthy |-> TRUE, length |-> <<1>>, items |-> <<>>]
    ELSE IF qt = "__proto__"
    THEN [truthy |-> TRUE, length |-> <<>>, items |-> <<>>]
    ELSE Undefined

\* i < sets.length, which is false when the length is undefined
LoopBound(sets) == IF sets.length = <<>> THEN 0 ELSE sets.length[1]

(***************************************************************************)
(* The embedding provider: a deterministic backend, one of Providers.      *)
(* Backend 1 returns vectors of two coordinates and backend 2 of three;    *)
(* backend 3 returns two coordinates but for one statement (level 5 of the *)
(* anchor sets with index 1), for which it returns three.                  *)
(***************************************************************************)
Providers == {1, 2, 3}
ProviderErrors == {"Voyage API error (429)", "Voyage API error (500)"}

QtCode(qt) == CASE qt = "ease" -> 0 [] qt = "trust" -> 1 [] OTHER -> 2
OriginCode(o) == CASE o = "default" -> 0 [] o = "custom" -> 1 [] OTHER -> 2

EmbedText(p, text) ==
    LET v == IF text[1] = "answer"
             THEN (CASE text[2] = "fine" -> <<2, 1>>
                     [] text[2] = "void" -> <<0, 0>>
                     [] OTHER -> <<-1, 2>>)
             ELSE <<text[4] - 3,
                    1 + ((text[3] + QtCode(text[2]) + OriginCode(text[1])) % 3)>>
    IN CASE p = 1 -> v
         [] p = 2 -> <<v[1], v[2], IF v = <<0, 0>> THEN 0 ELSE 1>>
         [] OTHER -> IF text[1] # "answer" /\ text[3] = 1 /\ text[4] = 5
                     THEN <<v[1], v[2], 1>> ELSE v

EmbedAll(p, texts) == [k \in 1..Len(texts) |-> EmbedText(p, texts[k])]

(***************************************************************************)
(* SsrScorer (scorer.ts:152-247).  One scoreAnswer invocation is the       *)
(* record m = [pc, frame, cache, calls, outcome]:                          *)
(*   pc      "idle" | "awaitAnswer" | "awaitAnchors"                       *)
(*   frame   the locals of scoreAnswer and getAnchorEmbeddings             *)
(*   cache   anchorEmbeddingsCache, a function from cache keys             *)
(*   calls   the provider.embed calls the invocation has issued            *)
(*   outcome how the invocation ended                                      *)
(***************************************************************************)
\* this.epsilon ?? 1e-8 and this.temperature ?? 1.0 in fixed point (1e-8 is
\* below 1/SCALE and rounds to 0)
DefaultEpsilon == 0
DefaultTemperature == SCALE

EmptyCache == [k \in {} |-> <<>>]
NoError == [kind |-> "none", detail |-> ""]
NoResult == [distribution |-> <<>>, expectedScore |-> 0, entropy |-> 0,
             anchorSetCount |-> <<>>]
NoOutcome == [status |-> "none", result |-> NoResult, error |-> NoError]
Returned(r) == [status |-> "ok", result |-> r, error |-> NoError]
Threw(kind, detail) ==
    [status |-> "error", result |-> NoResult,
     error |-> [kind |-> kind, detail |-> detail]]
\* `sets` of a frame refers to the catalog's array: what the frame reads of it
\* is its truthiness and its length
Shape(v) == [truthy |-> v.truthy, length |-> v.length]
NoFrame == [questionType |-> "", freeTextAnswer |-> "", sets |-> Shape(Undefined),
            i |-> 0, answerEmbedding |-> <<>>, distributions |-> <<>>]

\* a cache key that leaves the anchor-set index out
cacheKeyWithoutIndex(questionType, anchorSetIndex) == questionType \o ":"

\* a cache key that leaves the question type out
cacheKeyWithoutType(questionType, anchorSetIndex) == ToString(anchorSetIndex)

\* scorer.ts:171  `${questionType}:${anchorSetIndex}`
cacheKey(questionType, anchorSetIndex) ==
    questionType \o ":" \o ToString(anchorSetIndex)

\* the statements of a set taken from level 5 down
AnchorsOfDescending(anchorSet) == [level \in Levels |-> anchorSet[6 - level]]

\* scorer.ts:182  [1, 2, 3, 4, 5].map((level) => anchorSet[level])
AnchorsOf(anchorSet) == [level \in Levels |-> anchorSet[level]]

\* scorer.ts:217-222  avgDistribution[i] += dist[i] / distributions.length
RECURSIVE AvgAt(_, _, _)
AvgAt(distributions, level, n) ==
    IF distributions = <<>> THEN 0
    ELSE (Head(distributions)[level] \div n) + AvgAt(Tail(distributions), level, n)

avgDistributionOf(distributions) ==
    [level \in Levels |-> AvgAt(distributions, level, Len(distributions))]

\* scorer.ts:224-227
expectedScoreOf(avgDistribution) ==
    SumSeq([level \in Levels |-> avgDistribution[level] * level])

\* an entropy taken with the natural logarithm (ln 2 = 0.6931)
entropyInNats(avgDistribution) ==
    SumSeq([level \in Levels |->
              IF avgDistribution[level] > 0
              THEN -((((avgDistribution[level] * Log2Fx(avgDistribution[level]))
                           \div SCALE) * 6931) \div SCALE)
              ELSE 0])

\* scorer.ts:229-234
entropyOf(avgDistribution) ==
    SumSeq([level \in Levels |->
              IF avgDistribution[level] > 0
              THEN -((avgDistribution[level] * Log2Fx(avgDistribution[level])) \div SCALE)
              ELSE 0])

\* scorer.ts:217-241
ScoreResultOf(distributions, sets) ==
    LET avgDistribution == avgDistributionOf(distributions)
    IN [distribution |-> avgDistribution,
        expectedScore |-> expectedScoreOf(avgDistribution),
        entropy |-> entropyOf(avgDistribution),
        anchorSetCount |-> sets.length]

\* scorer.ts:205-212  the distribution of one anchor set, <<>> when
\* cosineSimilarity throws
PmfOf(answerEmbedding, anchorEmbeddings, eps, temp) ==
    LET sims == [k \in 1..Len(anchorEmbeddings) |->
                    cosineSimilarity(answerEmbedding, anchorEmbeddings[k])]
    IN IF \E k \in 1..Len(sims) : sims[k].threw THEN <<>>
       ELSE similarityToPmf([k \in 1..Len(sims) |-> sims[k].value], eps, temp)

\* a lookup that never finds an entry
CacheHitNever(cache, key) == FALSE

\* scorer.ts:172-173  cached = this.anchorEmbeddingsCache.get(cacheKey);
\* if (cached) return cached
CacheHit(cache, key) == key \in DOMAIN cache

\* a store that keeps nothing but the new entry
CacheSetDropsOthers(cache, key, embeddings) == [k \in {key} |-> embeddings]

\* scorer.ts:185  this.anchorEmbeddingsCache.set(cacheKey, embeddings)
CacheSet(cache, key, embeddings) ==
    [k \in DOMAIN cache \cup {key} |-> IF k = key THEN embeddings ELSE cache[k]]

Stopped(f, cache, calls, how) ==
    [pc |-> "idle", frame |-> f, cache |-> cache, calls |-> calls, outcome |-> how]

RECURSIVE RunLoop(_, _, _, _, _, _)
RECURSIVE UseAnchors(_, _, _, _, _, _, _)

\* scorer.ts:205-214  the loop body once getAnchorEmbeddings has returned
\* anchorEmbeddings for index f.i
UseAnchors(f, cache, calls, catalog, eps, temp, anchorEmbeddings) ==
    LET pmf == PmfOf(f.answerEmbedding, anchorEmbeddings, eps, temp)
    IN IF pmf = <<>>
       THEN Stopped(f, cache, calls, Threw("DimensionMismatch", ""))
       ELSE RunLoop([f EXCEPT !.i = f.i + 1,
                              !.distributions = Append(f.distributions, pmf)],
                    cache, calls, catalog, eps, temp)

\* scorer.ts:202-242  the loop from index f.i on, with getAnchorEmbeddings
\* (scorer.ts:167-183) inlined, until it suspends in provider.embed, throws or
\* returns
RunLoop(f, cache, calls, catalog, eps, temp) ==
    IF ~(f.i < LoopBound(f.sets))
    THEN Stopped(f, cache, calls, Returned(ScoreResultOf(f.distributions, f.sets)))
    ELSE LET key == cacheKey(f.questionType, f.i)
         IN IF CacheHit(cache, key)
            THEN UseAnchors(f, cache, calls, catalog, eps, temp, cache[key])
            ELSE LET again == CatalogGet(catalog, f.questionType)
                 IN IF ~(again.truthy /\ f.i < Len(again.items))
                    THEN Stopped(f, cache, calls, Threw("NoAnchorSet", key))
                    ELSE [pc |-> "awaitAnchors", frame |-> f, cache |-> cache,
                          calls |-> Append(calls,
                                       [texts |-> AnchorsOf(again.items[f.i + 1]),
                                        outcome |-> "pending", error |-> ""]),
                          outcome |-> NoOutcome]

\* scorer.ts:193-198  the call of scoreAnswer, up to its first suspension
StartCall(cache, catalog, questionType, freeTextAnswer) ==
    LET sets == CatalogGet(catalog, questionType)
        f == [NoFrame EXCEPT !.questionType = questionType,
                             !.freeTextAnswer = freeTextAnswer,
                             !.sets = Shape(sets)]
    IN IF ~sets.truthy \/ sets.length = <<0>>
       THEN Stopped(f, cache, <<>>, Threw("NoAnchorSets", questionType))
       ELSE [pc |-> "awaitAnswer", frame |-> f, cache |-> cache,
             calls |-> <<[texts |-> <<AnswerText(freeTextAnswer)>>,
                          outcome |-> "pending", error |-> ""]>>,
             outcome |-> NoOutcome]

\* a call log in which the call that has ended still stands as pending
SettleLeavesPending(calls, how, error) == calls

\* the pending call of the log ends: "ok", or "error" with the provider's error
Settle(calls, how, error) ==
    [calls EXCEPT ![Len(calls)] = [@ EXCEPT !.outcome = how, !.error = error]]

\* the pending provider.embed call resolves with `embeddings`: scorer.ts:198
\* (the answer) or scorer.ts:183-186 (an anchor set), then the loop goes on
ResumeOk(m, catalog, eps, temp, embeddings) ==
    LET calls == Settle(m.calls, "ok", "")
    IN IF m.pc = "awaitAnswer"
       THEN RunLoop([m.frame EXCEPT !.answerEmbedding = embeddings[1]],
                    m.cache, calls, catalog, eps, temp)
       ELSE UseAnchors(m.frame,
                       CacheSet(m.cache, cacheKey(m.frame.questionType, m.frame.i),
                                embeddings),
                       calls, catalog, eps, temp, embeddings)

\* a scoreAnswer that empties the cache when the provider fails
ResumeErrorDropsCache(m, error) ==
    Stopped(m.frame, EmptyCache, Settle(m.calls, "error", error),
            Threw("ProviderError", error))

\* a scoreAnswer that catches the provider's error and throws one of its own
ResumeErrorWrapped(m, error) ==
    Stopped(m.frame, m.cache, Settle(m.calls, "error", error),
            Threw("ScoringError", "Could not score: " \o error))

\* the pending provider.embed call rejects: scorer.ts has no catch, the error
\* leaves scoreAnswer as it came
ResumeError(m, error) ==
    Stopped(m.frame, m.cache, Settle(m.calls, "error", error),
            Threw("ProviderError", error))

(***************************************************************************)
(* VoyageProvider (voyage-provider.ts): embed with its text -> vector memo  *)
(* and fetchEmbeddings, the request to the backend.  One embed call is the  *)
(* record v:                                                                *)
(*   cache           this.cache, a function from texts                      *)
(*   pc              "idle" | "fetching"                                    *)
(*   texts, results, uncachedTexts, uncachedIndices   the locals of embed   *)
(*   requests        the `input` of every request sent to the backend       *)
(*                   since construction or the last clearCache              *)
(*   response        data of the last response, in the order it arrived     *)
(*   status, returned   how the last embed call ended and what it returned  *)
(*   calls           the embed calls made so far                            *)
(***************************************************************************)
\* the embed calls on one provider
MaxCalls == 2

VoyageTexts == {"a", "b", "c"}

\* the vector the backend computes for a text
VoyageVector(text) ==
    CASE text = "a" -> <<1, 0>> [] text = "b" -> <<0, 1>> [] OTHER -> <<1, 1>>

\* results[i] = null
Null == <<>>

NoVoyage == [cache |-> [t \in {} |-> <<>>], pc |-> "idle", texts |-> <<>>,
             results |-> <<>>, uncachedTexts |-> <<>>, uncachedIndices |-> <<>>,
             requests |-> <<>>, response |-> <<>>, status |-> "none",
             returned |-> <<>>, calls |-> 0]

\* voyage-provider.ts:36-48  the first loop of embed from index i on (i counts
\* from 0): cached texts fill results, the others are queued
RECURSIVE VoyageScan(_, _, _, _)
VoyageScan(cache, texts, i, acc) ==
    IF ~(i < Len(texts)) THEN acc
    ELSE IF texts[i + 1] \in DOMAIN cache
         THEN VoyageScan(cache, texts, i + 1,
                         [acc EXCEPT !.results[i + 1] = cache[texts[i + 1]]])
         ELSE VoyageScan(cache, texts, i + 1,
                         [acc EXCEPT !.uncachedTexts = Append(@, texts[i + 1]),
                                     !.uncachedIndices = Append(@, i)])

\* voyage-provider.ts:35-51  embed(texts) up to its return or its request
VoyageStart(v, texts) ==
    LET scan == VoyageScan(v.cache, texts, 0,
                           [results |-> [k \in 1..Len(texts) |-> Null],
                            uncachedTexts |-> <<>>, uncachedIndices |-> <<>>])
        w == [v EXCEPT !.texts = texts, !.results = scan.results,
                       !.uncachedTexts = scan.uncachedTexts,
                       !.uncachedIndices = scan.uncachedIndices,
                       !.response = <<>>, !.calls = v.calls + 1]
    IN IF Len(scan.uncachedTexts) > 0
       THEN [w EXCEPT !.pc = "fetching", !.status = "none", !.returned = <<>>,
                      !.requests = Append(v.requests, scan.uncachedTexts)]
       ELSE [w EXCEPT !.pc = "idle", !.status = "ok", !.returned = scan.results]

\* the backend's data for a request, entry k carrying index k - 1, arriving in
\* the order `order` (a permutation of the entries)
ResponseData(input, order) ==
    [k \in 1..Len(input) |->
        [embedding |-> VoyageVector(input[order[k]]), index |-> order[k] - 1]]

ArrivalOrders(n) ==
    {f \in [1..n -> 1..n] : \A a, b \in 1..n : a # b => f[a] # f[b]}

\* a fetchEmbeddings that takes the response in the order it arrived
UnsortedData(data) == data

\* voyage-provider.ts:87  [...data.data].sort((a, b) => a.index - b.index)
RECURSIVE InsertByIndex(_, _)
InsertByIndex(d, sorted) ==
    IF sorted = <<>> THEN <<d>>
    ELSE IF d.index - Head(sorted).index < 0 THEN <<d>> \o sorted
         ELSE <<Head(sorted)>> \o InsertByIndex(d, Tail(sorted))

RECURSIVE SortByIndex(_)
SortByIndex(data) ==
    IF data = <<>> THEN <<>>
    ELSE InsertByIndex(data[Len(data)], SortByIndex(SubSeq(data, 1, Len(data) - 1)))

\* voyage-provider.ts:85-88  what fetchEmbeddings returns for a response
FetchedEmbeddings(data) ==
    LET sortedData == SortByIndex(data)
    IN [k \in 1..Len(sortedData) |-> sortedData[k].embedding]

\* voyage-provider.ts:53-58  the second loop of embed from index i on
RECURSIVE VoyageFill(_, _, _)
VoyageFill(v, embeddings, i) ==
    IF ~(i < Len(v.uncachedTexts)) THEN v
    ELSE LET text == v.uncachedTexts[i + 1]
             embedding == embeddings[i + 1]
         IN VoyageFill(
                [v EXCEPT !.cache = [t \in DOMAIN v.cache \cup {text} |->
                                        IF t = text THEN embedding ELSE v.cache[t]],
                          !.results[v.uncachedIndices[i + 1] + 1] = embedding],
                embeddings, i + 1)

\* voyage-provider.ts:51-61  the response has arrived: embed fills the memo
\* and the results, and returns
VoyageResume(v, data) ==
    LET w == VoyageFill([v EXCEPT !.response = data], FetchedEmbeddings(data), 0)
    IN [w EXCEPT !.pc = "idle", !.status = "ok", !.returned = w.results]

\* voyage-provider.ts:78-83  the response is not ok: fetchEmbeddings throws and
\* embed rejects
VoyageThrow(v) == [v EXCEPT !.pc = "idle", !.status = "error", !.returned = <<>>]

(***************************************************************************)
(* runAgent (the agent runner): the tool loop over the browser tools, as    *)
(* executeRun starts it.  A run is the record a:                            *)
(*   allowedHosts, baseHost, maxTurns, hasQuestions   the config and the    *)
(*                   options of the run                                     *)
(*   pc              "init" | "loop" | "eval" | "returned"                  *)
(*   iterations      the model iterations the tool runner has made          *)
(*   pageHost, history   the host of page.url() and the hosts visited       *)
(*                   before it                                              *)
(*   closed          the browser context has been closed                    *)
(*   sessionEnded, stepLog   the locals of that name                        *)
(*   stopReason      stop_reason of the last model message, "none" for none *)
(*   threw           runner.runUntilDone has thrown                         *)
(*   lastAct         the last browser_act call: its arguments, the host the *)
(*                   target resolved to and the page before it              *)
(*   success         the success runAgent reports                           *)
(***************************************************************************)
\* the model iterations a run is allowed (executeRun passes 50, cli.ts:187)
MaxTurns == 2

Hosts == {"shop.test", "evil.test"}
AboutBlank == "about:blank"

\* the `target` of a browser_act call: absent, an absolute URL on a host, a
\* relative reference, a string that is no URL, or a selector / key name
NoTarget == [kind |-> "absent", host |-> ""]
UrlOn(host) == [kind |-> "url", host |-> host]
RelativeRef == [kind |-> "relative", host |-> ""]
InvalidUrl == [kind |-> "invalid", host |-> ""]
Selector == [kind |-> "selector", host |-> ""]

NoAct == [action |-> "", target |-> NoTarget, resolved |-> "", hostBefore |-> "",
          navigated |-> FALSE]

NoAgent == [allowedHosts |-> {}, baseHost |-> "", maxTurns |-> 0,
            hasQuestions |-> FALSE, pc |-> "init", iterations |-> 0,
            pageHost |-> AboutBlank, history |-> <<>>, closed |-> FALSE,
            sessionEnded |-> FALSE, stepLog |-> <<>>, stopReason |-> "none",
            threw |-> FALSE, lastAct |-> NoAct, success |-> FALSE]

\* logStep of runAgent: the entry carries page.url() as it is when logged
logStep(a, action, outcome, target) ==
    [a EXCEPT !.stepLog = Append(@, [action |-> action, outcome |-> outcome,
                                     target |-> target, url |-> a.pageHost])]

\* new URL(target, page.url()).hostname: the host of an absolute URL, the
\* page's host for a relative reference, a TypeError for a string that is no URL
URLHostname(target, base) ==
    CASE target.kind = "url" -> [threw |-> FALSE, hostname |-> target.host]
      [] target.kind = "relative" -> [threw |-> FALSE, hostname |-> base]
      [] OTHER -> [threw |-> TRUE, hostname |-> ""]

\* the page loads a document of `host`
Navigate(a, host) ==
    [a EXCEPT !.history = Append(@, a.pageHost), !.pageHost = host]

\* page.goBack: the page returns to the document before, if there is one
GoBack(a) ==
    IF a.history = <<>> THEN a
    ELSE [a EXCEPT !.pageHost = a.history[Len(a.history)],
                   !.history = SubSeq(a.history, 1, Len(a.history) - 1)]

\* a goto that asks nobody
GotoUnguarded(allowedHosts, hostname) == TRUE

\* config.allowedHosts.includes(url.hostname)
GotoAllowed(allowedHosts, hostname) == hostname \in allowedHosts

\* browserActTool.run(args).  env is what the browser does when it is asked:
\* env.throws, the Playwright call fails (it always does on a closed page);
\* env.lands, the host of the document the clicked element leads to ("stay"
\* for none).
browserActRun(a, action, target, hasValue, env) ==
    LET throws == env.throws \/ a.closed
        url == URLHostname(target, a.pageHost)
        b == [a EXCEPT !.lastAct = [action |-> action, target |-> target,
                                    resolved |-> IF action = "goto" /\ ~url.threw
                                                 THEN url.hostname ELSE "",
                                    hostBefore |-> a.pageHost,
                                    navigated |-> FALSE]]
        failed == logStep(b, action, "error: thrown", target)
        went(c) == logStep([c EXCEPT !.lastAct.navigated = c.pageHost # a.pageHost
                                                           \/ c.history # a.history],
                           action, "success", target)
    IN CASE action = "goto" ->
              IF target.kind = "absent"
              THEN logStep(b, action, "error: missing target", target)
              ELSE IF url.threw THEN failed
              ELSE IF ~GotoAllowed(a.allowedHosts, url.hostname)
              THEN logStep(b, action, "blocked", target)
              ELSE IF throws THEN failed
              ELSE went(Navigate(b, url.hostname))
         [] action = "click" ->
              IF target.kind = "absent"
              THEN logStep(b, action, "error: missing target", target)
              ELSE IF throws THEN failed
              ELSE IF env.lands = "stay" THEN went(b)
              ELSE went(Navigate(b, env.lands))
         [] action \in {"type", "select"} ->
              IF target.kind = "absent" \/ ~hasValue
              THEN logStep(b, action, "error: missing target or value", target)
              ELSE IF throws THEN failed
              ELSE went(b)
         [] action = "press" ->
              IF target.kind = "absent"
              THEN logStep(b, action, "error: missing key name", target)
              ELSE IF throws THEN failed
              ELSE went(b)
         [] action = "back" ->
              IF throws THEN failed ELSE went(GoBack(b))
         [] OTHER ->
              IF throws THEN failed ELSE went(b)

\* browserObserveTool.run(): observePage throws on a closed page, and the
\* tool runner hands the error to the model
browserObserveRun(a) ==
    IF a.closed THEN a ELSE logStep(a, "observe", "success", NoTarget)

\* browserAssertTool.run(args): `passed` is what the page shows; a failing
\* Playwright call is caught and logged
browserAssertRun(a, passed, throws) ==
    IF throws \/ a.closed THEN logStep(a, "assert", "error: thrown", Selector)
    ELSE logStep(a, "assert", IF passed THEN "passed" ELSE "failed", Selector)

\* browserEndTool.run(): stopTrace and closeBrowserContext, which fail on a
\* context that is closed already
browserEndRun(a, throws) ==
    IF throws \/ a.closed THEN logStep(a, "end", "error: thrown", NoTarget)
    ELSE logStep([a EXCEPT !.closed = TRUE, !.sessionEnded = TRUE],
                 "end", "success", NoTarget)

\* a tool runner that allows one iteration more
MayIterateOnceMore(a) == a.iterations <= a.maxTurns

\* toolRunner({..., max_iterations: maxTurns}): the runner asks the model
\* again only while it has made fewer than max_iterations iterations
MayIterate(a) == a.iterations < a.maxTurns

\* a runAgent for which a passed assertion is enough, however the last
\* message stopped
AfterRunnerAnyStopReason(a) ==
    [a EXCEPT !.success =
                  a.sessionEnded
                  \/ \E k \in 1..Len(a.stepLog) :
                         /\ a.stepLog[k].action = "assert"
                         /\ a.stepLog[k].outcome = "passed",
              !.pc = IF a.hasQuestions THEN "eval" ELSE "returned"]

\* runAgent after runner.runUntilDone() has returned or thrown: success is
\* computed, then the evaluation answers are collected if there are questions
AfterRunner(a) ==
    [a EXCEPT !.success =
                  a.sessionEnded
                  \/ (/\ a.stopReason = "end_turn"
                      /\ \E k \in 1..Len(a.stepLog) :
                             /\ a.stepLog[k].action = "assert"
                             /\ a.stepLog[k].outcome = "passed"),
              !.pc = IF a.hasQuestions THEN "eval" ELSE "returned"]

(***************************************************************************)
(* The CI step of executeRun (cli.ts:305-370).  An optional number of the   *)
(* config stands as <<>> (undefined) or <<n>>, n in fixed point.            *)
(***************************************************************************)
Absent == <<>>
NoThresholds == [minSuccessRate |-> Absent, minEaseScore |-> Absent,
                 minTrustScore |-> Absent]

NoCi == [done |-> FALSE, ci |-> FALSE, thresholds |-> NoThresholds,
         success |-> FALSE, fileExists |-> FALSE, results |-> <<>>,
         allPassed |-> TRUE, exitCode |-> 0]


\* value >= threshold
AtLeast(value, threshold) == value >= threshold

\* cli.ts:309-348  the thresholds the step evaluates, in order; `scores` are
\* the scores read back from ssr-scores.json when the file exists
ThresholdResults(thresholds, success, fileExists, scores) ==
    LET successRate == IF success THEN SCALE ELSE 0
        rate == IF thresholds.minSuccessRate # Absent
                THEN <<[name |-> "Success Rate",
                        passed |-> AtLeast(successRate, thresholds.minSuccessRate[1]),
                        value |-> successRate,
                        threshold |-> thresholds.minSuccessRate[1]]>>
                ELSE <<>>
        ease == IF fileExists /\ thresholds.minEaseScore # Absent
                   /\ "ease" \in DOMAIN scores
                THEN <<[name |-> "Ease Score",
                        passed |-> AtLeast(scores["ease"].expectedScore,
                                           thresholds.minEaseScore[1]),
                        value |-> scores["ease"].expectedScore,
                        threshold |-> thresholds.minEaseScore[1]]>>
                ELSE <<>>
        trust == IF fileExists /\ thresholds.minTrustScore # Absent
                    /\ "trust" \in DOMAIN scores
                 THEN <<[name |-> "Trust Score",
                         passed |-> AtLeast(scores["trust"].expectedScore,
                                            thresholds.minTrustScore[1]),
                         value |-> scores["trust"].expectedScore,
                         threshold |-> thresholds.minTrustScore[1]]>>
                 ELSE <<>>
    IN rate \o ease \o trust

\* cli.ts:310, 321, 335, 346  allPassed
AllPassed(results) == \A k \in 1..Len(results) : results[k].passed

\* cli.ts:305-370  the exit code of the process: 1 from process.exit(1), 0 when
\* executeRun returns
ExitCodeOf(ci, results) == IF ci /\ ~AllPassed(results) THEN 1 ELSE 0

(***************************************************************************)
(* scoreAnswer invocations that run at the same time on one SsrScorer.     *)
(* Each has its own locals and embed calls; this.anchorEmbeddingsCache is   *)
(* the one they share.  race[i] is invocation i.                            *)
(***************************************************************************)
\* the invocations that run at the same time
MaxConcurrent == 2

IdleSlot == [started |-> FALSE, pc |-> "idle", frame |-> NoFrame, calls |-> <<>>,
             outcome |-> NoOutcome, round |-> 0]

\* no invocation runs beside another
NoRace == <<>>

(***************************************************************************)
(* The MCP browser server (createMcpServer): the variables of its module    *)
(* and the four tools.  A tool handler runs up to its first await, and the  *)
(* rest of it runs when the browser has answered; in between the handlers   *)
(* of other requests may run.  mcp is the record:                           *)
(*   currentPage, currentContext   NullRef, or the number of the session    *)
(*                   (the setPageAndContext call) the page or context is of *)
(*   allowedHosts, tracePath, stepLog   the variables of that name          *)
(*   sessions        the setPageAndContext calls so far                     *)
(*   pageHost        per session, the host of its page's url()              *)
(*   closedContexts  the sessions whose browser context is closed           *)
(*   browserOps      the operations asked of the browser so far             *)
(*   pending         the handlers that wait for the browser                 *)
(*   accepted        the tool calls that found a page or context            *)
(*   event           the last step: "set", or the "start" or "finish" of a  *)
(*                   tool call, with the tool and its reply                 *)
(***************************************************************************)
\* the setPageAndContext calls, the tool calls that find a page or context,
\* and the handlers that wait for the browser at one time
MaxSessions == 2
MaxToolCalls == 3
MaxPending == 2

\* null
NullRef == 0
NoTrace == ""

NoPageError == "Error: No browser page available"
NoContextError == "Error: No browser context available"

NoEvent == [step |-> "none", tool |-> "", reply |-> ""]

NoMcp == [currentPage |-> NullRef, currentContext |-> NullRef, allowedHosts |-> {},
          tracePath |-> NoTrace, stepLog |-> <<>>, sessions |-> 0,
          pageHost |-> <<>>, closedContexts |-> {}, browserOps |-> 0,
          pending |-> <<>>, accepted |-> 0, event |-> NoEvent]

\* part_002:85-96
setPageAndContext(m, host, hosts, traceOutputPath) ==
    [m EXCEPT !.sessions = m.sessions + 1,
              !.pageHost = Append(m.pageHost, host),
              !.currentPage = m.sessions + 1,
              !.currentContext = m.sessions + 1,
              !.allowedHosts = hosts,
              !.tracePath = traceOutputPath,
              !.stepLog = <<>>,
              !.event = [step |-> "set", tool |-> "", reply |-> ""]]

\* part_002:102-116  logStep of the server: url is currentPage?.url() || ""
serverLogStep(m, action, outcome) ==
    [m EXCEPT !.stepLog =
                  Append(@, [action |-> action, outcome |-> outcome,
                             url |-> IF m.currentPage = NullRef THEN ""
                                     ELSE m.pageHost[m.currentPage]])]

\* the handler returns `reply` without waiting
Replied(m, tool, reply) ==
    [m EXCEPT !.event = [step |-> "start", tool |-> tool, reply |-> reply]]

\* the handler asks the browser and waits
Waiting(m, tool, call) ==
    [m EXCEPT !.pending = Append(@, call),
              !.browserOps = m.browserOps + 1,
              !.accepted = m.accepted + 1,
              !.event = [step |-> "start", tool |-> tool, reply |-> "pending"]]

\* the handler of m.pending[k] asks the browser once more and waits again
Resumed(m, k, call) ==
    [m EXCEPT !.pending[k] = call,
              !.browserOps = m.browserOps + 1,
              !.event = [step |-> "resume", tool |-> call.tool, reply |-> "pending"]]

\* the handler of m.pending[k] goes on to its end and returns `reply`
Finished(m, k, tool, reply) ==
    [m EXCEPT !.pending = SubSeq(m.pending, 1, k - 1)
                          \o SubSeq(m.pending, k + 1, Len(m.pending)),
              !.event = [step |-> "finish", tool |-> tool, reply |-> reply]]

\* a handler that waits: the page or context it has asked, its arguments,
\* and the await it is at
NoCall == [tool |-> "", page |-> NullRef, action |-> "", target |-> NoTarget,
           passed |-> FALSE, stage |-> "first"]

\* the page of session `page` shows a document of `host` ("stay": as before)
Lands(m, page, host) ==
    IF host = "stay" THEN m ELSE [m EXCEPT !.pageHost[page] = host]

\* part_002:129-136  browser_observe up to await observePage(currentPage)
browser_observe(m) ==
    IF m.currentPage = NullRef THEN Replied(m, "browser_observe", NoPageError)
    ELSE Waiting(m, "browser_observe",
                 [NoCall EXCEPT !.tool = "browser_observe", !.page = m.currentPage])

\* part_002:136-141  observePage has returned, or thrown (it throws on a page
\* whose context is closed): the error leaves the handler
browser_observe_done(m, k, throws) ==
    IF throws \/ m.pending[k].page \in m.closedContexts
    THEN Finished(m, k, "browser_observe", "rejected")
    ELSE Finished(serverLogStep(m, "observe", "success"), k, "browser_observe",
                  "observation")

\* part_002:164-249  browser_act up to its first await
browser_act(m, action, target, hasValue) ==
    LET call == [NoCall EXCEPT !.tool = "browser_act", !.page = m.currentPage,
                               !.action = action, !.target = target]
        accepted == [m EXCEPT !.accepted = m.accepted + 1]
        logged(outcome, reply) ==
            Replied(serverLogStep(accepted, action, outcome), "browser_act", reply)
    IN IF m.currentPage = NullRef THEN Replied(m, "browser_act", NoPageError)
       ELSE CASE action = "goto" ->
                   IF target.kind = "absent"
                   THEN Replied(accepted, "browser_act",
                                "Error: goto requires a target URL")
                   ELSE LET url == URLHostname(target, m.pageHost[m.currentPage])
                        IN IF url.threw THEN logged("error: thrown", "failure")
                           ELSE IF url.hostname \notin m.allowedHosts
                           THEN logged("blocked", "Error: Navigation is not allowed")
                           ELSE Waiting(m, "browser_act",
                                        [call EXCEPT !.target = UrlOn(url.hostname)])
              [] action \in {"click", "press"} ->
                   IF target.kind = "absent"
                   THEN Replied(accepted, "browser_act", "Error: requires a target")
                   ELSE Waiting(m, "browser_act", call)
              [] action \in {"type", "select"} ->
                   IF target.kind = "absent" \/ ~hasValue
                   THEN Replied(accepted, "browser_act",
                                "Error: requires target and value")
                   ELSE Waiting(m, "browser_act", call)
              [] OTHER -> Waiting(m, "browser_act", call)

\* part_002:190-282  the browser has answered browser_act.  click and scroll
\* read currentPage once more and wait a second time; then the step is
\* logged and the reply built with currentPage.url().  Reading a property of
\* currentPage when it is null by now throws into the catch block, as a
\* failure of the browser does (waitForLoadState's is swallowed).
browser_act_done(m, k, throws, lands) ==
    LET call == m.pending[k]
        failed(n) == Finished(serverLogStep(n, call.action, "error: thrown"), k,
                              "browser_act", "failure")
        landed == CASE call.action = "goto" -> Lands(m, call.page, call.target.host)
                    [] call.action \in {"click", "back"} -> Lands(m, call.page, lands)
                    [] OTHER -> m
        logged(n) == IF n.currentPage = NullRef
                     THEN failed(serverLogStep(n, call.action, "success"))
                     ELSE Finished(serverLogStep(n, call.action, "success"), k,
                                   "browser_act", "success")
        broken == throws \/ call.page \in m.closedContexts
    IN IF call.stage = "first"
       THEN IF broken THEN failed(m)
            ELSE IF call.action \in {"click", "scroll"}
            THEN IF m.currentPage = NullRef THEN failed(landed)
                 ELSE Resumed(landed, k, [call EXCEPT !.stage = "second",
                                                      !.page = m.currentPage])
            ELSE logged(landed)
       ELSE IF call.action = "scroll" /\ broken THEN failed(m)
       ELSE logged(m)

\* part_002:297-332  browser_assert up to its first await: urlContains needs
\* none
browser_assert(m, assertion, passed) ==
    IF m.currentPage = NullRef THEN Replied(m, "browser_assert", NoPageError)
    ELSE IF assertion = "urlContains"
    THEN Replied(serverLogStep([m EXCEPT !.accepted = m.accepted + 1], "assert",
                               IF passed THEN "passed" ELSE "failed"),
                 "browser_assert", IF passed THEN "passed" ELSE "failed")
    ELSE Waiting(m, "browser_assert",
                 [NoCall EXCEPT !.tool = "browser_assert", !.page = m.currentPage,
                                !.action = assertion, !.passed = passed])

\* part_002:317-360  the browser has answered browser_assert; a failure of
\* isVisible counts as not visible
browser_assert_done(m, k, throws) ==
    LET call == m.pending[k]
        broken == throws \/ call.page \in m.closedContexts
        passed == call.passed /\ ~broken
    IN IF broken /\ call.action = "textVisible"
       THEN Finished(serverLogStep(m, "assert", "error: thrown"), k,
                     "browser_assert", "failure")
       ELSE Finished(serverLogStep(m, "assert", IF passed THEN "passed" ELSE "failed"),
                     k, "browser_assert", IF passed THEN "passed" ELSE "failed")

\* part_002:369-381  browser_end up to its first await: stopTrace when there
\* is a trace path, closeBrowserContext when there is none
browser_end(m) ==
    IF m.currentContext = NullRef THEN Replied(m, "browser_end", NoContextError)
    ELSE Waiting(m, "browser_end",
                 [NoCall EXCEPT !.tool = "browser_end", !.page = m.currentContext,
                                !.stage = IF m.tracePath # NoTrace THEN "stopTrace"
                                          ELSE "close"])

\* a browser_end that leaves currentPage as it is
browser_end_keeps_page(m, k, throws) ==
    LET call == m.pending[k]
        failed == Finished(serverLogStep(m, "end", "error: thrown"), k,
                           "browser_end", "failure")
    IN IF call.stage = "stopTrace"
       THEN IF throws \/ call.page \in m.closedContexts \/ m.currentContext = NullRef
            THEN failed
            ELSE Resumed(m, k, [call EXCEPT !.stage = "close",
                                            !.page = m.currentContext])
       ELSE IF throws THEN failed
       ELSE Finished([serverLogStep([m EXCEPT !.closedContexts = @ \cup {call.page}],
                                    "end", "success")
                          EXCEPT !.currentContext = NullRef, !.tracePath = NoTrace],
                     k, "browser_end", "success")

\* part_002:376-414  stopTrace has returned and closeBrowserContext is called
\* with currentContext as it is by now (context.close() of null throws), or
\* closeBrowserContext has returned: the step is logged and the session
\* cleared.  Either may have thrown; what closing a context that is closed
\* already does is the browser library's affair.
browser_end_done(m, k, throws) ==
    LET call == m.pending[k]
        failed == Finished(serverLogStep(m, "end", "error: thrown"), k,
                           "browser_end", "failure")
    IN IF call.stage = "stopTrace"
       THEN IF throws \/ call.page \in m.closedContexts \/ m.currentContext = NullRef
            THEN failed
            ELSE Resumed(m, k, [call EXCEPT !.stage = "close",
                                            !.page = m.currentContext])
       ELSE IF throws THEN failed
       ELSE Finished([serverLogStep([m EXCEPT !.closedContexts = @ \cup {call.page}],
                                    "end", "success")
                          EXCEPT !.currentPage = NullRef, !.currentContext = NullRef,
                                 !.tracePath = NoTrace],
                     k, "browser_end", "success")

(***************************************************************************)
(* The state.                                                              *)
(***************************************************************************)
VARIABLES
    provider,               \* this.provider: which deterministic backend
    anchorSets,             \* this.anchorSets: which catalog object
    epsilon,                \* this.epsilon
    temperature,            \* this.temperature
    anchorEmbeddingsCache,  \* this.anchorEmbeddingsCache
    pc,                     \* where the running scoreAnswer invocation stands
    frame,                  \* its locals
    embedCalls,             \* the provider.embed calls it has issued, in order
    outcome,                \* how the last finished invocation ended
    atCall,                 \* the cache and the history as the invocation began,
                            \* and how the invocation before it failed
    hist,                   \* the last successful invocation, and clearCache since
    batch,                  \* the scoreAllAnswers invocation, if any
    voyage,                 \* a VoyageProvider and its running embed call
    agent,                  \* a run of the agent: runAgent and its page
    ci,                     \* the CI step of executeRun
    fn,                     \* the last call of a pure function, and its result
    race,                   \* scoreAnswer invocations that run at the same time
    mcp                     \* the MCP browser server: its module variables

vars == <<provider, anchorSets, epsilon, temperature, anchorEmbeddingsCache,
          pc, frame, embedCalls, outcome, atCall, hist, batch, voyage, agent, ci, fn,
          race, mcp>>

scorerVars == <<provider, anchorSets, epsilon, temperature>>

\* the state of SsrScorer and scoreAllAnswers
scoringVars == <<provider, anchorSets, epsilon, temperature, anchorEmbeddingsCache,
                 pc, frame, embedCalls, outcome, atCall, hist, batch>>

\* the components that take no part in scoring
elsewhere == <<voyage, agent, ci, fn, race, mcp>>

\* no pure function has been called
NoFn == [name |-> "", args |-> <<>>, result |-> <<>>]

ElsewhereAtRest ==
    /\ voyage = NoVoyage
    /\ agent = NoAgent
    /\ ci = NoCi
    /\ fn = NoFn
    /\ race = NoRace
    /\ mcp = NoMcp

\* the question types a caller asks for
QuestionTypes ==
    {"ease", "trust", "ease:1", "empty", "unknown_q"} \cup PrototypeMembers

NoHist == [valid |-> FALSE, questionType |-> "", freeTextAnswer |-> "",
           result |-> NoResult, cleared |-> FALSE, justCleared |-> FALSE]
NoAtCall == [cache |-> EmptyCache, hist |-> NoHist, failed |-> <<>>]
NoBatch == [active |-> FALSE, caller |-> "", configAnchors |-> {}, entries |-> <<>>,
            mapping |-> [given |-> FALSE, map |-> <<>>], k |-> 0, log |-> <<>>,
            scores |-> <<>>, totalExpectedScore |-> 0, totalEntropy |-> 0,
            done |-> FALSE, skipped |-> FALSE,
            summary |-> [averageExpectedScore |-> 0, averageEntropy |-> 0,
                         questionCount |-> 0]]

\* the invocation as one record, and back
Machine == [pc |-> pc, frame |-> frame, cache |-> anchorEmbeddingsCache,
            calls |-> embedCalls, outcome |-> outcome]

\* the history after the invocation m has ended
HistAfter(h, m) ==
    IF m.outcome.status = "ok"
    THEN [valid |-> TRUE, questionType |-> m.frame.questionType,
          freeTextAnswer |-> m.frame.freeTextAnswer,
          result |-> m.outcome.result, cleared |-> FALSE, justCleared |-> FALSE]
    ELSE h

SetMachine(m) ==
    /\ pc' = m.pc
    /\ frame' = m.frame
    /\ anchorEmbeddingsCache' = m.cache
    /\ embedCalls' = m.calls
    /\ outcome' = m.outcome

\* scorer.ts:159-165  new SsrScorer(options): anchorSets ?? DEFAULT_ANCHOR_SETS
\* and so on; `given` says whether options.anchorSets is present
NewScorer(p, given, catalog) ==
    /\ provider = p
    /\ anchorSets = IF given THEN catalog ELSE "DEFAULT_ANCHOR_SETS"
    /\ epsilon = DefaultEpsilon
    /\ temperature = DefaultTemperature
    /\ anchorEmbeddingsCache = EmptyCache

Init ==
    /\ \E p \in Providers : NewScorer(p, TRUE, "CustomAnchorSets")
    /\ pc = "idle"
    /\ frame = NoFrame
    /\ embedCalls = <<>>
    /\ outcome = NoOutcome
    /\ atCall = NoAtCall
    /\ hist = NoHist
    /\ batch = NoBatch
    /\ ElsewhereAtRest

\* the anchor set the provider failed on in the invocation that has just
\* ended, as <<questionType, anchorSetIndex>>; <<>> when it ended otherwise or
\* clearCache was called since
FailedAnchorSet ==
    IF outcome.error.kind = "ProviderError" /\ Len(embedCalls) >= 2
       /\ ~hist.justCleared
    THEN <<frame.questionType, frame.i>>
    ELSE <<>>

\* a caller invokes scorer.scoreAnswer(questionType, freeTextAnswer)
ScoreAnswer(questionType, freeTextAnswer) ==
    /\ pc = "idle"
    /\ ~batch.active
    /\ LET m == StartCall(anchorEmbeddingsCache, CatalogOf(anchorSets), questionType,
                          freeTextAnswer)
       IN /\ SetMachine(m)
          /\ atCall' = [cache |-> anchorEmbeddingsCache, hist |-> hist,
                         failed |-> FailedAnchorSet]
          /\ hist' = IF m.pc = "idle" THEN HistAfter([hist EXCEPT !.justCleared = FALSE], m)
                     ELSE [hist EXCEPT !.justCleared = FALSE]
    /\ UNCHANGED <<scorerVars, elsewhere, batch>>

\* the provider answers the pending embed call
EmbedResolves ==
    /\ pc # "idle"
    /\ ~batch.active
    /\ LET m == ResumeOk(Machine, CatalogOf(anchorSets), epsilon, temperature,
                         EmbedAll(provider, embedCalls[Len(embedCalls)].texts))
       IN /\ SetMachine(m)
          /\ hist' = IF m.pc = "idle" THEN HistAfter(hist, m) ELSE hist
    /\ UNCHANGED <<scorerVars, elsewhere, atCall, batch>>

\* the provider fails the pending embed call
EmbedRejects(error) ==
    /\ pc # "idle"
    /\ ~batch.active
    /\ SetMachine(ResumeError(Machine, error))
    /\ UNCHANGED <<scorerVars, elsewhere, atCall, hist, batch>>

\* a clearCache that leaves the entries in place
ClearCacheKeepsEntries ==
    /\ pc = "idle"
    /\ ~batch.active
    /\ hist' = [hist EXCEPT !.cleared = TRUE, !.justCleared = TRUE]
    /\ UNCHANGED <<scorerVars, elsewhere, anchorEmbeddingsCache, pc, frame, embedCalls,
                   outcome, atCall, batch>>

\* scorer.ts:244-246
ClearCache ==
    /\ pc = "idle"
    /\ ~batch.active
    /\ anchorEmbeddingsCache' = EmptyCache
    /\ hist' = [hist EXCEPT !.cleared = TRUE, !.justCleared = TRUE]
    /\ UNCHANGED <<scorerVars, elsewhere, pc, frame, embedCalls, outcome, atCall, batch>>

Next ==
    \/ \E qt \in QuestionTypes, t \in AnswerTexts : ScoreAnswer(qt, t)
    \/ EmbedResolves
    \/ \E e \in ProviderErrors : EmbedRejects(e)
    \/ ClearCache

Spec == Init /\ [][Next]_vars

(***************************************************************************)
(* Properties of SsrScorer, checked under Spec.                            *)
(***************************************************************************)
\* the last scoreAnswer invocation has returned a ScoreResult
LastCallOk == pc = "idle" /\ outcome.status = "ok"

\* the own anchor sets of a question type (none for a name the catalog lacks)
OwnSets(catalog, qt) == IF qt \in DOMAIN catalog THEN catalog[qt] ELSE <<>>

\* the five statements of an anchor set, level 1 first
InLevelOrder(anchorSet) ==
    <<anchorSet[1], anchorSet[2], anchorSet[3], anchorSet[4], anchorSet[5]>>

IsAnswerCall(c, t) == c.texts = <<AnswerText(t)>>
IsAnchorCall(c) == Len(c.texts) = 5 /\ c.texts[1][1] # "answer"

\* the invocation in `frame` scores the question type of the last successful
\* invocation, and clearCache was not called in between
Warm ==
    /\ atCall.hist.valid
    /\ ~atCall.hist.cleared
    /\ atCall.hist.questionType = frame.questionType

\* C1: when a question type is scored again on one scorer with no clearCache
\* in between, the second invocation issues no embed call for an anchor set:
\* its only embed call carries the answer text, and it issues exactly that one
\* when it returns.
C1_SecondCallEmbedsOnlyAnswer ==
    Warm =>
        /\ Len(embedCalls) <= 1
        /\ \A k \in 1..Len(embedCalls) :
               IsAnswerCall(embedCalls[k], frame.freeTextAnswer)
        /\ (LastCallOk => Len(embedCalls) = 1)

C1_Witness ==
    /\ Warm
    /\ LastCallOk
    /\ frame.questionType = "ease"
    /\ OwnSets(CatalogOf(anchorSets), "ease") # <<>>
    /\ Len(embedCalls) = 1

\* the embed calls a returning invocation is to issue: the answer, then every
\* anchor set that was not cached as the invocation began, in index order
RECURSIVE UncachedCalls(_, _, _, _)
UncachedCalls(sets, qt, index, cacheBefore) ==
    IF index >= Len(sets) THEN <<>>
    ELSE (IF cacheKey(qt, index) \in DOMAIN cacheBefore THEN <<>>
          ELSE <<[texts |-> InLevelOrder(sets[index + 1]), outcome |-> "ok",
                  error |-> ""]>>)
         \o UncachedCalls(sets, qt, index + 1, cacheBefore)

ExpectedCalls(qt, t, cacheBefore) ==
    <<[texts |-> <<AnswerText(t)>>, outcome |-> "ok", error |-> ""]>>
    \o UncachedCalls(OwnSets(CatalogOf(anchorSets), qt), qt, 0, cacheBefore)

\* C2: a returning scoreAnswer has issued exactly 1 + U embed calls: the
\* answer text alone, then each of the U anchor sets that were uncached at its
\* start, in index order, each as its five statements in level order.
C2_EmbedCallsOfOneInvocation ==
    LastCallOk =>
        embedCalls = ExpectedCalls(frame.questionType, frame.freeTextAnswer,
                                   atCall.cache)

\* a returning invocation on "ease" that found set 0 cached and set 1 not
C2_Witness ==
    /\ LastCallOk
    /\ frame.questionType = "ease"
    /\ Len(OwnSets(CatalogOf(anchorSets), "ease")) >= 2
    /\ cacheKey("ease", 0) \in DOMAIN atCall.cache
    /\ cacheKey("ease", 1) \notin DOMAIN atCall.cache
    /\ Len(embedCalls) = Len(OwnSets(CatalogOf(anchorSets), "ease"))

\* the invocation in `frame` began right after clearCache and repeats the
\* arguments of the last successful invocation before it
RepeatsAfterClear ==
    /\ atCall.hist.valid
    /\ atCall.hist.justCleared
    /\ atCall.hist.questionType = frame.questionType
    /\ atCall.hist.freeTextAnswer = frame.freeTextAnswer

\* C3: clearCache leaves the cache empty, and the same scoreAnswer call made
\* after it returns the ScoreResult it returned before and embeds every anchor
\* set of the question type afresh.
C3_ClearCacheThenSameResult ==
    /\ (hist.justCleared => anchorEmbeddingsCache = EmptyCache)
    /\ (RepeatsAfterClear /\ LastCallOk =>
            /\ outcome.result = atCall.hist.result
            /\ Len(embedCalls) = 1 + Len(OwnSets(CatalogOf(anchorSets), frame.questionType))
            /\ \A k \in 2..Len(embedCalls) : IsAnchorCall(embedCalls[k]))

C3_Witness ==
    /\ RepeatsAfterClear
    /\ LastCallOk
    /\ frame.questionType = "ease"
    /\ Len(embedCalls) = 1 + Len(OwnSets(CatalogOf(anchorSets), "ease"))
    /\ Len(embedCalls) > 1

\* scoreAnswer(qt, t) on a scorer that has never been used: every anchor set
\* embedded by the provider, nothing read from a cache
ColdResult(p, catalog, eps, temp, qt, t) ==
    LET sets == OwnSets(catalog, qt)
        answerEmbedding == EmbedText(p, AnswerText(t))
    IN ScoreResultOf(
           [s \in 1..Len(sets) |->
               PmfOf(answerEmbedding, EmbedAll(p, InLevelOrder(sets[s])), eps, temp)],
           CatalogGet(catalog, qt))

\* C4: whatever scoreAnswer and clearCache calls came before (cache cold,
\* partly filled or warm), a returning scoreAnswer(questionType, text) returns
\* what it returns on a scorer that was never used.
C4_ResultIndependentOfHistory ==
    LastCallOk =>
        outcome.result = ColdResult(provider, CatalogOf(anchorSets), epsilon, temperature,
                                    frame.questionType, frame.freeTextAnswer)

\* a returning invocation that read one anchor set from the cache and embedded
\* the other, after an earlier clearCache
C4_Witness ==
    /\ LastCallOk
    /\ frame.questionType = "ease"
    /\ atCall.hist.cleared
    /\ DOMAIN atCall.cache = {cacheKey("ease", 0)}
    /\ Len(embedCalls) = 2
    /\ outcome.result.expectedScore > 0

\* C5: scoreAnswer on a question type that has no catalog entry, or an empty
\* list of anchor sets, fails before any embed call and leaves the cache as it
\* was.
C5_UnknownTypeFailsBeforeEmbed ==
    (/\ frame # NoFrame
     /\ OwnSets(CatalogOf(anchorSets), frame.questionType) = <<>>) =>
        /\ pc = "idle"
        /\ outcome.status = "error"
        /\ embedCalls = <<>>
        /\ anchorEmbeddingsCache = atCall.cache

\* C10: an embed call that failed is the last embed call of its invocation
\* (nothing is issued after it, nothing is retried), and the invocation has
\* failed with the very error the provider raised.
C10_ProviderErrorPropagates ==
    \A k \in 1..Len(embedCalls) :
        embedCalls[k].outcome = "error" =>
            /\ k = Len(embedCalls)
            /\ pc = "idle"
            /\ outcome = Threw("ProviderError", embedCalls[k].error)
            /\ embedCalls[k].error \in ProviderErrors

\* the provider failed on the second anchor set, after two calls that succeeded
C10_Witness ==
    /\ Len(embedCalls) = 3
    /\ embedCalls[3].outcome = "error"
    /\ IsAnchorCall(embedCalls[3])
    /\ embedCalls[1].outcome = "ok"
    /\ pc = "idle"

\* every entry of the cache is an entry of the cache after the step, unchanged
CacheKept ==
    \A k \in DOMAIN anchorEmbeddingsCache :
        /\ k \in DOMAIN anchorEmbeddingsCache'
        /\ anchorEmbeddingsCache'[k] = anchorEmbeddingsCache[k]

\* C11: but for clearCache, no step of a scoreAnswer invocation (its call, a
\* resolved or a rejected embed call, its return or its failure) removes an
\* entry of the anchor cache or replaces the embeddings an entry holds.
C11_CacheGrowsMonotonically == [][ClearCache \/ CacheKept]_vars

\* three entries are cached and an invocation has failed since
C11_Witness ==
    /\ pc = "idle"
    /\ outcome.status = "error"
    /\ Cardinality(DOMAIN anchorEmbeddingsCache) >= 3

\* the (questionType, anchorSetIndex) pairs of a catalog
PairsOf(catalog) ==
    UNION {{<<qt, i>> : i \in 0..(Len(catalog[qt]) - 1)} : qt \in DOMAIN catalog}

\* C12: two distinct (questionType, anchorSetIndex) pairs of the catalog never
\* have the same cache key, also when a question type contains ':' or digits
\* ("ease" at index 1 and "ease:1" at index 0); every entry of the cache
\* belongs to a pair of the catalog, and the entry of a pair holds what the
\* provider returns for the five statements of that very anchor set.
C12_CacheHasNoCollisions ==
    LET catalog == CatalogOf(anchorSets)
        pairs == PairsOf(catalog)
    IN /\ \A a, b \in pairs :
              a # b => cacheKey(a[1], a[2]) # cacheKey(b[1], b[2])
       /\ \A k \in DOMAIN anchorEmbeddingsCache :
              \E a \in pairs : cacheKey(a[1], a[2]) = k
       /\ \A a \in pairs :
              cacheKey(a[1], a[2]) \in DOMAIN anchorEmbeddingsCache =>
                  anchorEmbeddingsCache[cacheKey(a[1], a[2])]
                      = EmbedAll(provider, InLevelOrder(catalog[a[1]][a[2] + 1]))

\* "ease" at index 1 and "ease:1" at index 0 are both cached
C12_Witness ==
    /\ pc = "idle"
    /\ {cacheKey("ease", 1), cacheKey("ease:1", 0)} \subseteq DOMAIN anchorEmbeddingsCache
    /\ anchorEmbeddingsCache[cacheKey("ease", 1)]
           # anchorEmbeddingsCache[cacheKey("ease:1", 0)]

\* the distribution of each anchor set of a question type for an answer, every
\* set embedded on its own
SetDistributions(p, catalog, eps, temp, qt, t) ==
    LET sets == OwnSets(catalog, qt)
    IN [s \in 1..Len(sets) |->
           PmfOf(EmbedText(p, AnswerText(t)), EmbedAll(p, InLevelOrder(sets[s])),
                 eps, temp)]

\* the sum of the shares dists[s][level] / n over the sets, taken in the
\* order `order` of the sets
MeanIn(dists, order, level) ==
    SumSeq([k \in 1..Len(dists) |-> dists[order[k]][level] \div Len(dists)])

\* the result is the equal-weight mean of the distributions of the N anchor
\* sets, in whatever order the sets are taken, with five entries, and
\* anchorSetCount is N
IsMeanOfSets(result, dists) ==
    LET n == Len(dists)
    IN /\ Len(result.distribution) = 5
       /\ \A order \in ArrivalOrders(n) :
              \A level \in Levels :
                  result.distribution[level] = MeanIn(dists, order, level)
       /\ result.anchorSetCount = <<n>>

\* C20: the distribution scoreAnswer returns is the element-wise mean of the
\* distributions of the N anchor sets of the question type, each with weight
\* 1/N and in whatever order the sets are taken; it has exactly five entries,
\* and anchorSetCount is N.
C20_DistributionIsMeanOfSets ==
    LastCallOk =>
        IsMeanOfSets(outcome.result,
                     SetDistributions(provider, CatalogOf(anchorSets), epsilon,
                                      temperature, frame.questionType,
                                      frame.freeTextAnswer))

\* the same statement for the question types the catalog itself holds
C20_HoldsForCatalogTypes ==
    (LastCallOk /\ frame.questionType \in DOMAIN CatalogOf(anchorSets)) =>
        IsMeanOfSets(outcome.result,
                     SetDistributions(provider, CatalogOf(anchorSets), epsilon,
                                      temperature, frame.questionType,
                                      frame.freeTextAnswer))

\* the sum over the levels 1..5 of level times the probability of the level
WeightedLevels(distribution) ==
    SumSeq([level \in Levels |-> level * distribution[level]])

\* a score in [1, 5], up to the rounding of the divisions that made the
\* distribution of n anchor sets (one unit of 1/SCALE per entry and division)
InScoreRange(score, distribution, n) ==
    /\ score >= SumSeq(distribution)
    /\ score <= 5 * SumSeq(distribution)
    /\ score >= SCALE - 5 * 5 * (1 + n)
    /\ score <= 5 * SCALE

\* C21: the expectedScore scoreAnswer returns is the sum over the levels 1..5
\* of level times the averaged probability of the level, and it lies in
\* [1, 5] for every result.
C21_ExpectedScoreInRange ==
    LastCallOk =>
        /\ outcome.result.expectedScore = WeightedLevels(outcome.result.distribution)
        /\ InScoreRange(outcome.result.expectedScore, outcome.result.distribution,
                        Len(OwnSets(CatalogOf(anchorSets), frame.questionType)))

\* the same statement for the question types the catalog itself holds
C21_HoldsForCatalogTypes ==
    (LastCallOk /\ frame.questionType \in DOMAIN CatalogOf(anchorSets)) =>
        /\ outcome.result.expectedScore = WeightedLevels(outcome.result.distribution)
        /\ InScoreRange(outcome.result.expectedScore, outcome.result.distribution,
                        Len(OwnSets(CatalogOf(anchorSets), frame.questionType)))

ZeroVector(v) == \A k \in 1..Len(v) : v[k] = 0

\* the provider has returned an all-zero vector for the answer
ZeroAnswer == frame.answerEmbedding # <<>> /\ ZeroVector(frame.answerEmbedding)

\* the vectors the provider returns for the statements of the catalog all
\* have the length of the answer embedding
OneLength ==
    LET catalog == CatalogOf(anchorSets)
    IN \A a \in PairsOf(catalog) :
           \A level \in Levels :
               Len(EmbedText(provider, catalog[a[1]][a[2] + 1][level]))
                   = Len(frame.answerEmbedding)

\* the uniform split: 0.2 per level
Uniform == [level \in Levels |-> SCALE \div 5]

\* the invocation with an all-zero answer embedding: every similarity to a
\* cached anchor is 0 and nothing is thrown, it fails through the provider
\* only, every distribution of an anchor set is uniform and expectedScore is 3
ZeroAnswerIsScored ==
    /\ \A key \in DOMAIN anchorEmbeddingsCache :
           \A level \in Levels :
               cosineSimilarity(frame.answerEmbedding,
                                anchorEmbeddingsCache[key][level])
                   = [threw |-> FALSE, value |-> 0]
    /\ (pc = "idle" =>
            outcome.status = "ok" \/ outcome.error.kind = "ProviderError")
    /\ \A k \in 1..Len(frame.distributions) : frame.distributions[k] = Uniform
    /\ (LastCallOk =>
            /\ Len(frame.distributions) >= 1
            /\ outcome.result.distribution = Uniform
            /\ outcome.result.expectedScore = 3 * SCALE)

\* C22: an all-zero embedding is not an error: cosineSimilarity is 0 when a
\* vector has zero norm, so when the provider returns an all-zero vector for
\* the answer (of the length of its other vectors), scoreAnswer succeeds, the distribution of every anchor set is
\* the uniform split (0.2 per level) and expectedScore is 3.
C22_ZeroAnswerScoresThree == (ZeroAnswer /\ OneLength) => ZeroAnswerIsScored

\* the same statement for the question types the catalog itself holds
C22_HoldsForCatalogTypes ==
    (ZeroAnswer /\ OneLength /\ frame.questionType \in DOMAIN CatalogOf(anchorSets)) =>
        ZeroAnswerIsScored

\* the longest vectors cosineSimilarity is applied to
MaxDim == 2

\* the vectors of up to MaxDim coordinates 0 or 1, the empty one among them
ShortVectors == UNION {[1..n -> {0, 1}] : n \in 0..MaxDim}

\* the anchor embeddings scoreAnswer is using: those of the set at index
\* frame.i, once the answer is embedded and the provider has returned them
AnchorsInUse ==
    IF frame.answerEmbedding # <<>>
       /\ cacheKey(frame.questionType, frame.i) \in DOMAIN anchorEmbeddingsCache
    THEN anchorEmbeddingsCache[cacheKey(frame.questionType, frame.i)]
    ELSE <<>>

\* one of them has not the length of the answer embedding
AnchorLengthDiffers ==
    \E level \in 1..Len(AnchorsInUse) :
        Len(AnchorsInUse[level]) # Len(frame.answerEmbedding)

\* C23: cosineSimilarity fails for every two vectors of unequal length, the
\* empty vector included; so when the provider returns an anchor embedding
\* whose length differs from the answer embedding's, scoreAnswer fails at
\* once (no embed call follows) and returns no ScoreResult.
C23_UnequalLengthsFail ==
    /\ \A a, b \in ShortVectors :
           Len(a) # Len(b) => cosineSimilarity(a, b).threw
    /\ (AnchorLengthDiffers =>
            /\ pc = "idle"
            /\ outcome = Threw("DimensionMismatch", "")
            /\ embedCalls[Len(embedCalls)].outcome = "ok")
    /\ (LastCallOk =>
            \A i \in 0..(frame.i - 1) :
                cacheKey(frame.questionType, i) \in DOMAIN anchorEmbeddingsCache =>
                    \A level \in Levels :
                        Len(anchorEmbeddingsCache[cacheKey(frame.questionType, i)][level])
                            = Len(frame.answerEmbedding))

\* the first anchor set was scored; the provider returned the second with a
\* vector of another length, and the invocation failed on it
C23_Witness ==
    /\ pc = "idle"
    /\ outcome = Threw("DimensionMismatch", "")
    /\ frame.questionType = "ease"
    /\ frame.i = 1
    /\ Len(frame.distributions) = 1
    /\ Len(embedCalls) = 3
    /\ AnchorLengthDiffers

\* the answer embedding is closer to the level-5 anchor of a set than to the
\* anchor of every other level
ClosestToFive(answerEmbedding, anchorEmbeddings) ==
    \A level \in 1..4 :
        cosineSimilarity(answerEmbedding, anchorEmbeddings[5]).value
            > cosineSimilarity(answerEmbedding, anchorEmbeddings[level]).value

\* a returned invocation on a question type with two anchor sets, with the
\* default temperature and epsilon, whose answer is closest to level 5 in both
TwoSetsClosestToFive ==
    LET sets == OwnSets(CatalogOf(anchorSets), frame.questionType)
    IN /\ LastCallOk
       /\ Len(sets) = 2
       /\ epsilon = DefaultEpsilon
       /\ temperature = DefaultTemperature
       /\ \A s \in 1..Len(sets) :
              ClosestToFive(frame.answerEmbedding,
                            EmbedAll(provider, InLevelOrder(sets[s])))

LevelFiveIsLargest ==
    \A s \in 1..Len(frame.distributions) :
        \A level \in 1..4 :
            frame.distributions[s][5] > frame.distributions[s][level]

\* C24: with two anchor sets for a question type and an answer embedding that
\* is closer to the level-5 anchor than to every other level in both sets,
\* scoreAnswer with the default temperature and epsilon returns an
\* expectedScore greater than 4.0, and level 5 has the largest probability in
\* the distribution of each set.
C24_ClosestToFiveScoresAboveFour ==
    TwoSetsClosestToFive =>
        /\ outcome.result.expectedScore > 4 * SCALE
        /\ LevelFiveIsLargest

\* what holds: level 5 has the largest probability in the distribution of
\* each set and in the averaged one, and the score is above that of level 1
C24_LevelFiveHasLargestProbability ==
    TwoSetsClosestToFive =>
        /\ LevelFiveIsLargest
        /\ \A level \in 1..4 :
               outcome.result.distribution[5] > outcome.result.distribution[level]
        /\ outcome.result.expectedScore > 1 * SCALE

\* -sum of p * log2(p) over the five probabilities, with 0 * log2(0) = 0
Shannon(distribution) ==
    SumSeq([level \in Levels |->
              IF distribution[level] = 0 THEN 0
              ELSE -((distribution[level] * Log2Fx(distribution[level])) \div SCALE)])

\* C25: the entropy scoreAnswer returns is the base-2 Shannon entropy of the
\* averaged distribution, a probability of zero contributing 0; it lies in
\* [0, log2(5)] (up to two units of 1/SCALE per term: the rounding of the
\* logarithm and of the product) and is largest for the
\* uniform distribution.
C25_EntropyIsShannonBase2 ==
    LastCallOk =>
        /\ outcome.result.entropy = Shannon(outcome.result.distribution)
        /\ outcome.result.entropy >= 0
        /\ outcome.result.entropy <= Log2Fx(5 * SCALE) + 2 * 5
        /\ outcome.result.entropy <= Shannon(Uniform)
        /\ (outcome.result.distribution = Uniform =>
                /\ outcome.result.entropy = Shannon(Uniform)
                /\ outcome.result.entropy >= Log2Fx(5 * SCALE) - 2 * 5)

\* a result with the uniform distribution after one with a lower entropy
C25_Witness ==
    /\ LastCallOk
    /\ outcome.result.distribution = Uniform
    /\ outcome.result.entropy > 2 * SCALE
    /\ atCall.hist.valid
    /\ atCall.hist.result.entropy > 0
    /\ atCall.hist.result.entropy < outcome.result.entropy

\* the last invocation failed because the provider failed on an anchor set
\* (the set at index frame.i), and clearCache was not called since
FailedOnAnchorSet == pc = "idle" /\ FailedAnchorSet # <<>>

\* the invocation in `frame` is the next one after that, on the same question
\* type
AfterFailedAnchorSet ==
    /\ atCall.failed # <<>>
    /\ atCall.failed[1] = frame.questionType

\* the index of the anchor set an anchor embed call carries
SetIndexOf(call) == call.texts[1][3]

\* C26: when provider.embed fails on anchor set k of a scoreAnswer call, the
\* cache afterwards holds every entry it held as the call began and an entry
\* for each set before k, and none for set k; a later scoreAnswer call on the
\* same question type issues embed calls for the sets that are still uncached
\* (set k and those after it) and for no other anchor set.
C26_FailedSetIsNotCached ==
    LET qt == frame.questionType
    IN /\ (FailedOnAnchorSet =>
              /\ \A key \in DOMAIN atCall.cache :
                     /\ key \in DOMAIN anchorEmbeddingsCache
                     /\ anchorEmbeddingsCache[key] = atCall.cache[key]
              /\ \A i \in 0..(frame.i - 1) :
                     cacheKey(qt, i) \in DOMAIN anchorEmbeddingsCache
              /\ cacheKey(qt, frame.i) \notin DOMAIN anchorEmbeddingsCache)
       /\ (AfterFailedAnchorSet =>
              /\ \A i \in 0..(atCall.failed[2] - 1) :
                     cacheKey(qt, i) \in DOMAIN atCall.cache
              /\ cacheKey(qt, atCall.failed[2]) \notin DOMAIN atCall.cache
              /\ \A c \in 2..Len(embedCalls) :
                     /\ IsAnchorCall(embedCalls[c])
                     /\ SetIndexOf(embedCalls[c]) >= atCall.failed[2]
                     /\ cacheKey(qt, SetIndexOf(embedCalls[c]))
                            \notin DOMAIN atCall.cache
              /\ (LastCallOk =>
                     embedCalls = ExpectedCalls(qt, frame.freeTextAnswer,
                                                atCall.cache)))

\* the provider failed on the second anchor set of "ease"; the next call on
\* "ease" embedded the answer and that set, and returned
C26_Witness ==
    /\ AfterFailedAnchorSet
    /\ frame.questionType = "ease"
    /\ atCall.failed[2] = 1
    /\ LastCallOk
    /\ Len(embedCalls) = 2
    /\ SetIndexOf(embedCalls[2]) = 1
    /\ cacheKey("ease", 0) \in DOMAIN atCall.cache

(***************************************************************************)
(* scoreAllAnswers (score-answers.ts:19-60) and the scoring step of         *)
(* executeRun (cli.ts:276-295).  batch holds the invocation:                *)
(*   entries   Object.entries(freeTextAnswers): [questionId, answer]        *)
(*   mapping   questionTypeMapping: [given, map]                            *)
(*   k         the entry being scored                                       *)
(*   log       per entry handled: the question type passed to scoreAnswer,  *)
(*             how the invocation ended and the embed calls it issued       *)
(*   scores, totalExpectedScore, totalEntropy   the locals of that name     *)
(*   summary   the summary returned, once done                              *)
(***************************************************************************)
\* the entries of one freeTextAnswers object
MaxQuestions == 2

QuestionIds == {"ease", "trust", "unknown_q"} \cup PrototypeMembers

NoMapping == [given |-> FALSE, map |-> <<>>]
Mappings ==
    {NoMapping,
     [given |-> TRUE, map |-> <<>>],
     [given |-> TRUE, map |-> [id \in {"unknown_q"} |-> "ease"]],
     [given |-> TRUE, map |-> [id \in {"ease", "trust"} |->
                                  IF id = "ease" THEN "trust" ELSE "missing"]]}

\* score-answers.ts:33  questionTypeMapping?.[questionId] ?? questionId.  The
\* read finds the members of Object.prototype too; used as a question type,
\* such a member counts by its string form.
MappingGet(mapping, questionId) ==
    IF ~mapping.given THEN questionId
    ELSE IF questionId \in DOMAIN mapping.map THEN mapping.map[questionId]
    ELSE IF questionId = "constructor" THEN ObjectFunctionKey
    ELSE IF questionId = "__proto__" THEN ObjectPrototypeKey
    ELSE questionId

\* score-answers.ts:37-40  scores[questionId] = {...result, answer}: an
\* assignment to "__proto__" replaces the prototype of scores and adds no key
ScoresSet(scores, questionId, result, answer) ==
    IF questionId = "__proto__" THEN scores
    ELSE [id \in DOMAIN scores \cup {questionId} |->
             IF id = questionId
             THEN [distribution |-> result.distribution,
                   expectedScore |-> result.expectedScore,
                   entropy |-> result.entropy,
                   anchorSetCount |-> result.anchorSetCount,
                   answer |-> answer]
             ELSE scores[id]]

\* a summary that divides by the number of entries given
SummaryOverAllEntries(b) ==
    LET n == Len(b.entries)
    IN [averageExpectedScore |-> IF n > 0 THEN b.totalExpectedScore \div n ELSE 0,
        averageEntropy |-> IF n > 0 THEN b.totalEntropy \div n ELSE 0,
        questionCount |-> n]

\* score-answers.ts:50-58
SummaryOf(b) ==
    LET scoredCount == Cardinality(DOMAIN b.scores)
    IN [averageExpectedScore |->
            IF scoredCount > 0 THEN b.totalExpectedScore \div scoredCount ELSE 0,
        averageEntropy |->
            IF scoredCount > 0 THEN b.totalEntropy \div scoredCount ELSE 0,
        questionCount |-> scoredCount]

LogEntry(b, m) ==
    [questionId |-> b.entries[b.k].questionId,
     questionType |-> m.frame.questionType,
     status |-> m.outcome.status,
     result |-> m.outcome.result,
     error |-> m.outcome.error,
     calls |-> m.calls]

\* score-answers.ts:36-47  the try block after scoreAnswer has ended as m
\* says: the result is kept, or the catch block warns and goes on
Recorded(b, m) ==
    LET logged == [b EXCEPT !.log = Append(b.log, LogEntry(b, m))]
    IN IF m.outcome.status = "ok"
       THEN [logged EXCEPT
               !.scores = ScoresSet(b.scores, b.entries[b.k].questionId,
                                    m.outcome.result, b.entries[b.k].answer),
               !.totalExpectedScore = b.totalExpectedScore
                                      + m.outcome.result.expectedScore,
               !.totalEntropy = b.totalEntropy + m.outcome.result.entropy]
       ELSE logged

\* score-answers.ts:32-59  the loop from entry b.k on, until scoreAnswer
\* suspends in provider.embed or the entries are used up
RECURSIVE BatchLoop(_, _, _)
BatchLoop(b, cache, catalog) ==
    IF b.k > Len(b.entries)
    THEN [b |-> [b EXCEPT !.done = TRUE, !.summary = SummaryOf(b)],
          m |-> Stopped(NoFrame, cache, <<>>, NoOutcome)]
    ELSE LET questionId == b.entries[b.k].questionId
             questionType == MappingGet(b.mapping, questionId)
             m == StartCall(cache, catalog, questionType, b.entries[b.k].answer)
         IN IF m.pc = "idle"
            THEN BatchLoop([Recorded(b, m) EXCEPT !.k = b.k + 1], m.cache, catalog)
            ELSE [b |-> b, m |-> m]

\* scoreAnswer has ended as m says; the loop goes on with the next entry
BatchAfter(b, m, catalog) ==
    IF m.pc = "idle"
    THEN BatchLoop([Recorded(b, m) EXCEPT !.k = b.k + 1], m.cache, catalog)
    ELSE [b |-> b, m |-> m]

\* the freeTextAnswers objects: up to MaxQuestions entries with distinct ids,
\* each id with the answer AnswerFor gives it
AnswerFor(id) == IF id \in {"ease", "constructor"} THEN "fine" ELSE "text"

RECURSIVE EntriesOf(_, _)
EntriesOf(ids, n) ==
    IF n = 0 THEN {<<>>}
    ELSE LET shorter == EntriesOf(ids, n - 1)
         IN shorter \cup
            {Append(es, [questionId |-> id, answer |-> AnswerFor(id)]) :
                es \in {x \in shorter : Len(x) = n - 1}, id \in ids}

Distinct(es) == \A a, c \in 1..Len(es) : a # c => es[a].questionId # es[c].questionId

EntryLists(ids) == {es \in EntriesOf(ids, MaxQuestions) : Distinct(es)}

BatchInit ==
    /\ \E p \in Providers : NewScorer(p, FALSE, "")
    /\ pc = "idle"
    /\ frame = NoFrame
    /\ embedCalls = <<>>
    /\ outcome = NoOutcome
    /\ atCall = NoAtCall
    /\ hist = NoHist
    /\ batch = NoBatch
    /\ ElsewhereAtRest

BatchStart(caller, configAnchors, entries, mapping) ==
    LET b0 == [NoBatch EXCEPT !.active = TRUE, !.caller = caller,
                              !.configAnchors = configAnchors,
                              !.entries = entries, !.mapping = mapping, !.k = 1]
        r == BatchLoop(b0, EmptyCache, CatalogOf(anchorSets))
    IN /\ batch' = r.b
       /\ SetMachine(r.m)
       /\ UNCHANGED <<scorerVars, elsewhere, atCall, hist>>

\* a caller invokes scoreAllAnswers(freeTextAnswers, provider, mapping?)
ScoreAllAnswers(entries, mapping) ==
    /\ ~batch.active
    /\ BatchStart("api", {}, entries, mapping)

\* cli.ts:276-295  executeRun scores the answers the agent collected; the
\* config's anchors (`configAnchors`: the question ids that have some) are not
\* among the arguments
ExecuteRunScoring(configAnchors, entries, hasVoyageKey) ==
    /\ ~batch.active
    /\ IF Len(entries) > 0 /\ hasVoyageKey
       THEN BatchStart("executeRun", configAnchors, entries, NoMapping)
       ELSE /\ batch' = [NoBatch EXCEPT !.active = TRUE, !.caller = "executeRun",
                                        !.configAnchors = configAnchors,
                                        !.entries = entries, !.skipped = TRUE]
            /\ UNCHANGED <<scorerVars, elsewhere, anchorEmbeddingsCache, pc, frame,
                           embedCalls, outcome, atCall, hist>>

BatchRunning == batch.active /\ ~batch.done /\ ~batch.skipped /\ pc # "idle"

\* the provider answers the pending embed call of the question being scored
BatchEmbedResolves ==
    /\ BatchRunning
    /\ LET m == ResumeOk(Machine, CatalogOf(anchorSets), epsilon, temperature,
                         EmbedAll(provider, embedCalls[Len(embedCalls)].texts))
           r == BatchAfter(batch, m, CatalogOf(anchorSets))
       IN /\ batch' = r.b
          /\ SetMachine(r.m)
    /\ UNCHANGED <<scorerVars, elsewhere, atCall, hist>>

\* the provider fails the pending embed call of the question being scored
BatchEmbedRejects(error) ==
    /\ BatchRunning
    /\ LET r == BatchAfter(batch, ResumeError(Machine, error), CatalogOf(anchorSets))
       IN /\ batch' = r.b
          /\ SetMachine(r.m)
    /\ UNCHANGED <<scorerVars, elsewhere, atCall, hist>>

ApiEntryLists == EntryLists(QuestionIds)
\* executeRun's answers are keyed by the ids of config.evaluationQuestions and
\* built by assignment, so "__proto__" is never a key of them
RunEntryLists == EntryLists(QuestionIds \ {"__proto__"})
ConfigAnchorChoices == SUBSET {"ease", "unknown_q"}

BatchNext ==
    \/ /\ ~batch.active
       /\ \E es \in ApiEntryLists, mp \in Mappings : ScoreAllAnswers(es, mp)
    \/ /\ ~batch.active
       /\ \E anchors \in ConfigAnchorChoices, es \in RunEntryLists, key \in BOOLEAN :
              ExecuteRunScoring(anchors, es, key)
    \/ BatchEmbedResolves
    \/ \E e \in ProviderErrors : BatchEmbedRejects(e)

BatchSpec == BatchInit /\ [][BatchNext]_vars

(***************************************************************************)
(* Properties of scoreAllAnswers and executeRun, checked under BatchSpec.  *)
(***************************************************************************)
\* the entries whose scoreAnswer invocation returned a ScoreResult
SucceededAt == {k \in 1..Len(batch.log) : batch.log[k].status = "ok"}
SucceededIds == {batch.log[k].questionId : k \in SucceededAt}

\* C6: scoreAllAnswers returns whatever fails per question: every entry has
\* been handled, and the keys of `scores` are exactly the question ids whose
\* scoreAnswer invocation succeeded.
C6_ScoresAreTheSucceededQuestions ==
    (batch.done /\ ~batch.skipped) =>
        /\ Len(batch.log) = Len(batch.entries)
        /\ DOMAIN batch.scores = SucceededIds
        /\ batch.summary.questionCount = Cardinality(SucceededIds)

\* the same statement for question ids and types that are no member name of
\* Object.prototype
OrdinaryBatch ==
    /\ \A k \in 1..Len(batch.entries) :
           batch.entries[k].questionId \notin PrototypeMembers
    /\ batch.mapping.given =>
           \A id \in DOMAIN batch.mapping.map :
               batch.mapping.map[id] \notin PrototypeMembers

C6_HoldsForOrdinaryIds ==
    (batch.done /\ ~batch.skipped /\ OrdinaryBatch) =>
        /\ Len(batch.log) = Len(batch.entries)
        /\ DOMAIN batch.scores = SucceededIds
        /\ batch.summary.questionCount = Cardinality(SucceededIds)

RECURSIVE SumOver(_, _, _)
SumOver(scores, ids, field) ==
    IF ids = {} THEN 0
    ELSE LET id == CHOOSE x \in ids : TRUE
         IN (IF field = "expectedScore" THEN scores[id].expectedScore
             ELSE scores[id].entropy)
            + SumOver(scores, ids \ {id}, field)

MeanOver(scores, field) ==
    IF DOMAIN scores = {} THEN 0
    ELSE SumOver(scores, DOMAIN scores, field) \div Cardinality(DOMAIN scores)

AnchorCallsOf(entry) ==
    {k \in 1..Len(entry.calls) : IsAnchorCall(entry.calls[k])}

\* C8: in a run, a question id that has anchors in the loaded config is scored
\* against those anchors: unless the provider fails, its answer is scored, and
\* the statements embedded for it are the configured ones.
C8_ConfiguredAnchorsAreUsed ==
    (batch.done /\ ~batch.skipped /\ batch.caller = "executeRun") =>
        \A k \in 1..Len(batch.log) :
            (/\ batch.log[k].questionId \in batch.configAnchors
             /\ batch.log[k].error.kind # "ProviderError") =>
                /\ batch.log[k].status = "ok"
                /\ AnchorCallsOf(batch.log[k]) # {}
                /\ \A c \in AnchorCallsOf(batch.log[k]) :
                       \A level \in Levels :
                           /\ batch.log[k].calls[c].texts[level][1] = "config"
                           /\ batch.log[k].calls[c].texts[level][2]
                                  = batch.log[k].questionId

\* what the mapping holds for a question id, or the id itself
ResolvedType(mapping, questionId) ==
    IF mapping.given /\ questionId \in DOMAIN mapping.map
    THEN mapping.map[questionId]
    ELSE questionId

\* C9: the question type passed to scoreAnswer is the mapping's entry for the
\* question id when there is one and the question id otherwise, and a result
\* is stored under the question id.
C9_QuestionTypeResolution ==
    \A k \in 1..Len(batch.log) :
        /\ batch.log[k].questionType
               = ResolvedType(batch.mapping, batch.log[k].questionId)
        /\ batch.log[k].status = "ok" =>
               /\ batch.log[k].questionId \in DOMAIN batch.scores
               /\ batch.scores[batch.log[k].questionId].expectedScore
                      = batch.log[k].result.expectedScore
               /\ batch.scores[batch.log[k].questionId].answer
                      = batch.entries[k].answer

C9_HoldsForOrdinaryIds ==
    OrdinaryBatch =>
        \A k \in 1..Len(batch.log) :
            /\ batch.log[k].questionType
                   = ResolvedType(batch.mapping, batch.log[k].questionId)
            /\ batch.log[k].status = "ok" =>
                   /\ batch.log[k].questionId \in DOMAIN batch.scores
                   /\ batch.scores[batch.log[k].questionId].expectedScore
                          = batch.log[k].result.expectedScore
                   /\ batch.scores[batch.log[k].questionId].answer
                          = batch.entries[k].answer

\* the embed calls of a log that are outstanding
PendingIn(calls) == {c \in 1..Len(calls) : calls[c].outcome = "pending"}

\* C15: during scoreAllAnswers at most one provider.embed call is outstanding
\* (the last one issued), and the questions are scored one after another:
\* every embed call of a question that has been handled has completed or
\* failed, and the calls in flight belong to the one question that follows
\* the handled ones.
C15_OneEmbedCallAtATime ==
    batch.active =>
        /\ Cardinality(PendingIn(embedCalls)) <= 1
        /\ PendingIn(embedCalls) \subseteq {Len(embedCalls)}
        /\ \A k \in 1..Len(batch.log) : PendingIn(batch.log[k].calls) = {}
        /\ (pc # "idle" =>
               /\ PendingIn(embedCalls) = {Len(embedCalls)}
               /\ batch.k = Len(batch.log) + 1
               /\ ~batch.done)

\* the first question was scored with several embed calls, and an embed call
\* of the second question is outstanding after one that has completed
C15_Witness ==
    /\ batch.active
    /\ Len(batch.log) = 1
    /\ batch.log[1].status = "ok"
    /\ Len(batch.log[1].calls) >= 2
    /\ pc = "awaitAnchors"
    /\ Len(embedCalls) >= 2
    /\ embedCalls[1].outcome = "ok"

\* the entries handled whose question type is known: the catalog holds at
\* least one anchor set for it
KnownAt ==
    {k \in 1..Len(batch.log) :
        OwnSets(CatalogOf(anchorSets), batch.log[k].questionType) # <<>>}

RECURSIVE SetCountOver(_, _)
SetCountOver(catalog, types) ==
    IF types = {} THEN 0
    ELSE LET qt == CHOOSE x \in types : TRUE
         IN Len(catalog[qt]) + SetCountOver(catalog, types \ {qt})

RECURSIVE CallCount(_)
CallCount(log) ==
    IF log = <<>> THEN 0 ELSE Len(Head(log).calls) + CallCount(Tail(log))

\* the anchor-set embed calls of the invocation that the provider answered,
\* as <<entry, call>>
AnsweredAnchorCalls ==
    {kc \in UNION {{<<k, c>> : c \in AnchorCallsOf(batch.log[k])} :
                      k \in 1..Len(batch.log)} :
        batch.log[kc[1]].calls[kc[2]].outcome = "ok"}

\* no scoreAnswer of the invocation failed in or after an embed call
NoEmbedFailure ==
    \A k \in 1..Len(batch.log) :
        batch.log[k].error.kind \notin {"ProviderError", "DimensionMismatch"}

EmbedsEachSetOnce ==
    /\ \A a, b \in AnsweredAnchorCalls :
           batch.log[a[1]].calls[a[2]].texts = batch.log[b[1]].calls[b[2]].texts
               => a = b
    /\ (NoEmbedFailure =>
            /\ CallCount(batch.log)
                   = Cardinality(KnownAt)
                     + SetCountOver(CatalogOf(anchorSets),
                                    {batch.log[k].questionType : k \in KnownAt})
            /\ \A k \in 1..Len(batch.log) :
                   k \notin KnownAt => batch.log[k].calls = <<>>)

C27_HoldsForOrdinaryIds ==
    (batch.done /\ ~batch.skipped /\ OrdinaryBatch) => EmbedsEachSetOnce

(***************************************************************************)
(* VoyageProvider as a state machine: a client calls embed and clearCache,  *)
(* the backend answers the request of the running embed call.               *)
(***************************************************************************)
\* a scorer that nobody calls
ScoringAtRest ==
    /\ NewScorer(1, FALSE, "")
    /\ pc = "idle"
    /\ frame = NoFrame
    /\ embedCalls = <<>>
    /\ outcome = NoOutcome
    /\ atCall = NoAtCall
    /\ hist = NoHist
    /\ batch = NoBatch

\* the lists of texts of one embed call: up to as many texts as there are
\* distinct ones
TextLists == UNION {[1..n -> VoyageTexts] : n \in 0..Cardinality(VoyageTexts)}

VoyageInit ==
    /\ ScoringAtRest
    /\ voyage = NoVoyage
    /\ agent = NoAgent
    /\ ci = NoCi
    /\ fn = NoFn
    /\ race = NoRace
    /\ mcp = NoMcp

\* a client calls provider.embed(texts)
VoyageEmbed(texts) ==
    /\ voyage.pc = "idle"
    /\ voyage.calls < MaxCalls
    /\ voyage' = VoyageStart(voyage, texts)
    /\ UNCHANGED <<scoringVars, agent, ci, fn, race, mcp>>

\* the backend answers the request, its entries in the order `order`
VoyageResponds(order) ==
    /\ voyage.pc = "fetching"
    /\ voyage' = VoyageResume(voyage, ResponseData(voyage.uncachedTexts, order))
    /\ UNCHANGED <<scoringVars, agent, ci, fn, race, mcp>>

\* the backend answers with an error status
VoyageFails ==
    /\ voyage.pc = "fetching"
    /\ voyage' = VoyageThrow(voyage)
    /\ UNCHANGED <<scoringVars, agent, ci, fn, race, mcp>>

\* voyage-provider.ts:91-93
VoyageClearCache ==
    /\ voyage.pc = "idle"
    /\ voyage' = [voyage EXCEPT !.cache = NoVoyage.cache, !.requests = <<>>]
    /\ UNCHANGED <<scoringVars, agent, ci, fn, race, mcp>>

VoyageNext ==
    \/ \E texts \in TextLists : VoyageEmbed(texts)
    \/ /\ voyage.pc = "fetching"
       /\ \E order \in ArrivalOrders(Len(voyage.uncachedTexts)) : VoyageResponds(order)
    \/ VoyageFails
    \/ VoyageClearCache

VoyageSpec == VoyageInit /\ [][VoyageNext]_vars

\* the last embed call has returned
VoyageReturned == voyage.pc = "idle" /\ voyage.status = "ok"

\* C13: embed returns a list as long as its input whose entry i is the
\* backend's vector of texts[i]: for cached and uncached texts in any mix, for
\* a text that occurs more than once in the call, and for a response whose
\* entries arrive in any order.
C13_EmbedKeepsLengthAndOrder ==
    VoyageReturned =>
        /\ Len(voyage.returned) = Len(voyage.texts)
        /\ \A i \in 1..Len(voyage.texts) :
               voyage.returned[i] = VoyageVector(voyage.texts[i])

\* "a" came from the memo, "b" and "c" from a response that arrived with the
\* entry of "c" first
C13_Witness ==
    /\ VoyageReturned
    /\ voyage.texts = <<"b", "a", "c">>
    /\ voyage.uncachedTexts = <<"b", "c">>
    /\ Len(voyage.response) = 2
    /\ voyage.response[1].index = 1
    /\ voyage.returned = <<VoyageVector("b"), VoyageVector("a"), VoyageVector("c")>>

\* how often a text occurs in the requests sent to the backend
RECURSIVE CountIn(_, _)
CountIn(text, seq) ==
    IF seq = <<>> THEN 0
    ELSE (IF Head(seq) = text THEN 1 ELSE 0) + CountIn(text, Tail(seq))

RECURSIVE TimesSent(_, _)
TimesSent(text, requests) ==
    IF requests = <<>> THEN 0
    ELSE CountIn(text, Head(requests)) + TimesSent(text, Tail(requests))

\* the running or last embed call found every one of its texts in the memo
AllMemoized == voyage.calls > 0 /\ voyage.uncachedTexts = <<>>

\* C14: as long as the provider's clearCache is not called, no text is sent to
\* the backend more than once over all embed calls, and an embed call whose
\* texts are all memoized sends no request.
C14_EachTextSentAtMostOnce ==
    \A text \in VoyageTexts : TimesSent(text, voyage.requests) <= 1

\* what holds of the memo: a text whose vector the memo holds was sent in one
\* request only, unless it occurred more than once in that request, and an
\* embed call whose texts are all memoized sends no request
C14_MemoizedTextsAreNotSentAgain ==
    /\ \A text \in DOMAIN voyage.cache :
           \E k \in 1..Len(voyage.requests) :
               /\ CountIn(text, voyage.requests[k]) >= 1
               /\ \A j \in (k + 1)..Len(voyage.requests) :
                      CountIn(text, voyage.requests[j]) = 0
    /\ (AllMemoized /\ voyage.pc = "idle" /\ voyage.texts # <<>> =>
            /\ voyage.status = "ok"
            /\ voyage.response = <<>>)

(***************************************************************************)
(* A run of the agent as a state machine: executeRun opens config.baseUrl   *)
(* and calls runAgent; every model iteration is one step, in which the      *)
(* model asks for a tool, ends its turn, or the request fails.              *)
(***************************************************************************)
AgentConfigs ==
    {[NoAgent EXCEPT !.allowedHosts = hosts, !.baseHost = base,
                     !.maxTurns = turns, !.hasQuestions = q] :
        hosts \in {{"shop.test"}}, base \in Hosts, turns \in {1, MaxTurns},
        q \in BOOLEAN}

AgentInit ==
    /\ ScoringAtRest
    /\ voyage = NoVoyage
    /\ agent \in AgentConfigs
    /\ ci = NoCi
    /\ fn = NoFn
    /\ race = NoRace
    /\ mcp = NoMcp

AgentStep(a) ==
    /\ agent' = a
    /\ UNCHANGED <<scoringVars, voyage, ci, fn, race, mcp>>

\* cli.ts:168-189  executeRun opens config.baseUrl and calls runAgent
ExecuteRunStart ==
    /\ agent.pc = "init"
    /\ AgentStep([Navigate(agent, agent.baseHost) EXCEPT !.pc = "loop"])

\* the runner may ask the model once more
InLoop == agent.pc = "loop" /\ MayIterate(agent)

Iterated(a) == [a EXCEPT !.iterations = a.iterations + 1, !.stopReason = "tool_use"]

ActArguments ==
    ({"goto"} \X ({NoTarget, RelativeRef, InvalidUrl} \cup {UrlOn(h) : h \in Hosts})
              \X {FALSE})
    \cup ({"click", "press"} \X {NoTarget, Selector} \X {FALSE})
    \cup ({"type", "select"} \X {Selector} \X BOOLEAN)
    \cup ({"scroll", "wait", "back"} \X {NoTarget} \X {FALSE})

Browsers == [throws : BOOLEAN, lands : Hosts \cup {"stay"}]

\* the model asks for browser_act
AgentActs(args, env) ==
    /\ InLoop
    /\ AgentStep(browserActRun(Iterated(agent), args[1], args[2], args[3], env))

\* the model asks for browser_observe
AgentObserves ==
    /\ InLoop
    /\ AgentStep(browserObserveRun(Iterated(agent)))

\* the model asks for browser_assert
AgentAsserts(passed, throws) ==
    /\ InLoop
    /\ AgentStep(browserAssertRun(Iterated(agent), passed, throws))

\* the model asks for browser_end
AgentEnds(throws) ==
    /\ InLoop
    /\ AgentStep(browserEndRun(Iterated(agent), throws))

\* the model's message asks for no tool: the runner is done
AgentStops(reason) ==
    /\ InLoop
    /\ AgentStep(AfterRunner([Iterated(agent) EXCEPT !.stopReason = reason]))

\* the request to the model fails: runUntilDone throws, finalMessage stays null
AgentRequestFails ==
    /\ InLoop
    /\ AgentStep(AfterRunner([Iterated(agent) EXCEPT !.stopReason = "none",
                                                   !.threw = TRUE]))

\* max_iterations is used up: runUntilDone returns the last message
AgentOutOfTurns ==
    /\ agent.pc = "loop"
    /\ ~MayIterate(agent)
    /\ AgentStep(AfterRunner(agent))

\* collectEvaluationAnswers returns or throws; runAgent returns either way
AgentCollectsAnswers ==
    /\ agent.pc = "eval"
    /\ AgentStep([agent EXCEPT !.pc = "returned"])

AgentNext ==
    \/ ExecuteRunStart
    \/ /\ InLoop
       /\ \E args \in ActArguments, env \in Browsers : AgentActs(args, env)
    \/ AgentObserves
    \/ \E passed, throws \in BOOLEAN : AgentAsserts(passed, throws)
    \/ \E throws \in BOOLEAN : AgentEnds(throws)
    \/ \E reason \in {"end_turn", "max_tokens"} : AgentStops(reason)
    \/ AgentRequestFails
    \/ AgentOutOfTurns
    \/ AgentCollectsAnswers

AgentSpec == AgentInit /\ [][AgentNext]_vars

\* every model request is answered or fails, and every tool call returns
AgentLiveSpec == AgentSpec /\ WF_vars(AgentNext)

\* the last browser_act call was a goto to a host outside allowedHosts
GotoOutside ==
    /\ agent.lastAct.action = "goto"
    /\ agent.lastAct.resolved # ""
    /\ agent.lastAct.resolved \notin agent.allowedHosts

GotoWasBlocked ==
    /\ agent.pageHost = agent.lastAct.hostBefore
    /\ ~agent.lastAct.navigated
    /\ agent.stepLog # <<>>
    /\ agent.stepLog[Len(agent.stepLog)].action = "goto"
    /\ agent.stepLog[Len(agent.stepLog)].outcome = "blocked"

\* C16: in a run the page is on a host of allowedHosts after every browser
\* tool action, and a goto whose target resolves to a host outside the list
\* navigates nowhere and is logged as "blocked".
C16_PageStaysOnAllowedHosts ==
    /\ (agent.pc # "init" => agent.pageHost \in agent.allowedHosts)
    /\ (GotoOutside /\ agent.stepLog[Len(agent.stepLog)].action = "goto"
            => GotoWasBlocked)

\* what holds: the guard of goto
C16_GotoIsGuarded ==
    (GotoOutside /\ agent.stepLog # <<>>
        /\ agent.stepLog[Len(agent.stepLog)].action = "goto") => GotoWasBlocked

\* C18: the tool loop makes at most maxTurns model iterations, and every run
\* ends: runAgent returns its result, also when the end tool is never called.
C18_LoopIsBounded ==
    /\ [](agent.iterations <= agent.maxTurns)
    /\ <>(agent.pc = "returned")

\* a run that used up its turns without calling the end tool, and returned
C18_Witness ==
    /\ agent.pc = "returned"
    /\ agent.maxTurns = MaxTurns
    /\ agent.iterations = MaxTurns
    /\ ~agent.sessionEnded
    /\ agent.stopReason = "tool_use"
    /\ ~agent.success

\* the step log holds a call of the end tool that succeeded
EndToolSucceeded ==
    \E k \in 1..Len(agent.stepLog) :
        /\ agent.stepLog[k].action = "end"
        /\ agent.stepLog[k].outcome = "success"

\* the step log holds an assertion that passed
AssertionPassed ==
    \E k \in 1..Len(agent.stepLog) :
        /\ agent.stepLog[k].action = "assert"
        /\ agent.stepLog[k].outcome = "passed"

\* runUntilDone returned a final message that stopped with end_turn
StoppedWithEndTurn == ~agent.threw /\ agent.stopReason = "end_turn"

\* C29: runAgent reports success = true exactly when the end tool completed
\* successfully during the run, or the final message stopped with end_turn
\* and the step log holds an assertion with outcome "passed"; a run whose tool
\* loop threw, or stopped for another reason, without a successful call of the
\* end tool is reported as failed.
C29_SuccessIffEndedOrAsserted ==
    agent.pc \in {"eval", "returned"} =>
        /\ agent.success <=>
               (EndToolSucceeded \/ (StoppedWithEndTurn /\ AssertionPassed))
        /\ ((~StoppedWithEndTurn /\ ~EndToolSucceeded) => ~agent.success)

\* a run that never called the end tool: an assertion passed and the model
\* ended its turn
C29_Witness ==
    /\ agent.pc = "returned"
    /\ agent.success
    /\ ~EndToolSucceeded
    /\ ~agent.sessionEnded
    /\ StoppedWithEndTurn
    /\ AssertionPassed

(***************************************************************************)
(* The end of executeRun as a state machine: the SSR scoring step, then     *)
(* the CI step.                                                             *)
(***************************************************************************)
\* the answers of a run to the questions "ease" and "trust"
CiEntryLists == EntryLists({"ease", "trust"})

OptionalScores == {Absent, <<1 * SCALE>>, <<3 * SCALE>>, <<5 * SCALE>>}
ThresholdChoices ==
    [minSuccessRate : {Absent, <<SCALE>>}, minEaseScore : OptionalScores,
     minTrustScore : {Absent, <<3 * SCALE>>}]

CiInit == BatchInit

\* cli.ts:305-370  executeRun after the scoring step; saveOk says whether
\* saveSsrScores wrote ssr-scores.json
ExecuteRunCi(thresholds, success, ciFlag, saveOk) ==
    /\ batch.active
    /\ batch.done \/ batch.skipped
    /\ ~ci.done
    /\ LET fileExists == batch.done /\ saveOk
           results == IF ciFlag
                      THEN ThresholdResults(thresholds, success, fileExists,
                                            batch.scores)
                      ELSE <<>>
       IN ci' = [done |-> TRUE, ci |-> ciFlag, thresholds |-> thresholds,
                 success |-> success, fileExists |-> fileExists,
                 results |-> results, allPassed |-> AllPassed(results),
                 exitCode |-> ExitCodeOf(ciFlag, results)]
    /\ UNCHANGED <<scoringVars, voyage, agent, fn, race, mcp>>

CiNext ==
    \/ /\ ~batch.active
       /\ \E es \in CiEntryLists, key \in BOOLEAN : ExecuteRunScoring({}, es, key)
    \/ BatchEmbedResolves
    \/ \E e \in ProviderErrors : BatchEmbedRejects(e)
    \/ /\ ~ci.done
       /\ \E th \in ThresholdChoices, success, ciFlag, saveOk \in BOOLEAN :
              ExecuteRunCi(th, success, ciFlag, saveOk)

CiSpec == CiInit /\ [][CiNext]_vars

\* the score the run has for a question, <<>> when it has none
RunScore(id) ==
    IF batch.done /\ id \in DOMAIN batch.scores
    THEN <<batch.scores[id].expectedScore>> ELSE <<>>

\* a configured threshold is met: the run has the value and it reaches the
\* threshold
Met(threshold, value) ==
    threshold = Absent \/ (value # <<>> /\ value[1] >= threshold[1])

AllConfiguredMet ==
    /\ Met(ci.thresholds.minSuccessRate, <<IF ci.success THEN SCALE ELSE 0>>)
    /\ Met(ci.thresholds.minEaseScore, RunScore("ease"))
    /\ Met(ci.thresholds.minTrustScore, RunScore("trust"))

\* C17: a run in CI mode exits with code 1 exactly when at least one of the
\* configured thresholds (minSuccessRate, minEaseScore, minTrustScore) is not
\* met by the run, and with code 0 only when every configured threshold passed.
C17_ExitCodeFollowsThresholds ==
    (ci.done /\ ci.ci) =>
        /\ ci.exitCode \in {0, 1}
        /\ (ci.exitCode = 1 <=> ~AllConfiguredMet)

\* what holds: the exit code follows the thresholds the step evaluated, and
\* a score threshold is evaluated only when ssr-scores.json holds that score
C17_ExitCodeFollowsEvaluated ==
    (ci.done /\ ci.ci) =>
        /\ (ci.exitCode = 1 <=> \E k \in 1..Len(ci.results) : ~ci.results[k].passed)
        /\ (ci.fileExists /\ (\A k \in 1..Len(batch.log) : batch.log[k].status = "ok")
               /\ {batch.entries[k].questionId : k \in 1..Len(batch.entries)}
                      = {"ease", "trust"}
               => (ci.exitCode = 1 <=> ~AllConfiguredMet))

(***************************************************************************)
(* similarityToPmf as a function a caller applies (scorer.ts:24-41).        *)
(***************************************************************************)
\* the similarities, temperatures and epsilons of the calls: similarities -1,
\* 0 and 1; temperature 1 and 0.001; epsilon 0, 0.001 and 0.01.  At
\* temperature 0.001 two similarities that differ are 1000 or 2000 apart once
\* scaled, where Math.exp is 0 in double precision as it is here.
Similarities == {-SCALE, 0, SCALE}
Temperatures == {SCALE, SCALE \div 1000}
Epsilons == {0, SCALE \div 1000, SCALE \div 100}

SimilarityLists == [Levels -> Similarities]

\* the arguments of the call
PmfInit ==
    /\ ScoringAtRest
    /\ voyage = NoVoyage
    /\ agent = NoAgent
    /\ ci = NoCi
    /\ \E similarities \in SimilarityLists, eps \in Epsilons, temp \in Temperatures :
           fn = [NoFn EXCEPT !.args = [similarities |-> similarities,
                                       epsilon |-> eps, temperature |-> temp]]
    /\ race = NoRace
    /\ mcp = NoMcp

\* a caller applies similarityToPmf(similarities, {epsilon, temperature})
ApplySimilarityToPmf ==
    /\ fn.name = ""
    /\ fn' = [fn EXCEPT !.name = "similarityToPmf",
                        !.result = similarityToPmf(fn.args.similarities,
                                                   fn.args.epsilon,
                                                   fn.args.temperature)]
    /\ UNCHANGED <<scoringVars, voyage, agent, ci, race, mcp>>

PmfNext == ApplySimilarityToPmf

PmfSpec == PmfInit /\ [][PmfNext]_vars

PmfApplied == fn.name = "similarityToPmf"

\* five probabilities that sum to 1, up to the rounding of the divisions (one
\* unit of 1/SCALE for each of the five entries)
SumsToOne(pmf) ==
    /\ Len(pmf) = 5
    /\ SumSeq(pmf) <= SCALE
    /\ SumSeq(pmf) >= SCALE - 5

AllPositive(pmf) == \A k \in 1..Len(pmf) : pmf[k] > 0

\* C19: for every list of five similarities (zero and negative ones too),
\* every temperature > 0 and every epsilon >= 0, similarityToPmf returns five
\* probabilities that sum to 1 and are each strictly greater than 0.
C19_PmfSumsToOneAndIsPositive ==
    PmfApplied => SumsToOne(fn.result) /\ AllPositive(fn.result)

\* what holds: the sum for every epsilon, the positive entries for epsilon > 0
C19_PositiveWithEpsilonFloor ==
    PmfApplied =>
        /\ SumsToOne(fn.result)
        /\ (fn.args.epsilon > 0 => AllPositive(fn.result))

(***************************************************************************)
(* SsrScorer under scoreAnswer invocations that run at the same time: each  *)
(* runs from one provider.embed call to the next in one step, and the       *)
(* provider answers the pending calls in any order.  The provider is        *)
(* deterministic and does not fail.                                         *)
(***************************************************************************)
\* the invocations one caller makes, one after the other
MaxRounds == 2

RaceTypes == {"ease", "trust", "unknown_q"}
RaceAnswers == {"fine", "text"}

\* invocation i as a record of the kind StartCall and ResumeOk work on: its
\* own locals and calls, the cache of the scorer
RaceMachine(i) ==
    [pc |-> race[i].pc, frame |-> race[i].frame, cache |-> anchorEmbeddingsCache,
     calls |-> race[i].calls, outcome |-> race[i].outcome]

SetRace(i, m, round) ==
    /\ race' = [race EXCEPT ![i] = [started |-> TRUE, pc |-> m.pc, frame |-> m.frame,
                                    calls |-> m.calls, outcome |-> m.outcome,
                                    round |-> round]]
    /\ anchorEmbeddingsCache' = m.cache

\* a provider that answers a pending call with the vectors of the texts of
\* another invocation's pending call of the same size
RaceEmbeddingsCrossed(i) ==
    LET mine == race[i].calls[Len(race[i].calls)].texts
        others == {j \in 1..Len(race) :
                      /\ j # i
                      /\ race[j].pc # "idle"
                      /\ Len(race[j].calls[Len(race[j].calls)].texts) = Len(mine)}
    IN IF others = {} THEN EmbedAll(provider, mine)
       ELSE LET j == CHOOSE j \in others : TRUE
            IN EmbedAll(provider, race[j].calls[Len(race[j].calls)].texts)

\* what the provider answers the pending call of invocation i with: the
\* vectors of the texts of that call
RaceEmbeddings(i) ==
    EmbedAll(provider, race[i].calls[Len(race[i].calls)].texts)

RaceInit ==
    /\ \E p \in Providers : NewScorer(p, TRUE, "CustomAnchorSets")
    /\ pc = "idle"
    /\ frame = NoFrame
    /\ embedCalls = <<>>
    /\ outcome = NoOutcome
    /\ atCall = NoAtCall
    /\ hist = NoHist
    /\ batch = NoBatch
    /\ race = [i \in 1..MaxConcurrent |-> IdleSlot]
    /\ voyage = NoVoyage
    /\ agent = NoAgent
    /\ ci = NoCi
    /\ fn = NoFn
    /\ mcp = NoMcp

RaceUnchanged ==
    UNCHANGED <<provider, anchorSets, epsilon, temperature, pc, frame, embedCalls,
                outcome, atCall, hist, batch, voyage, agent, ci, fn, mcp>>

\* a caller invokes scorer.scoreAnswer while other invocations may be waiting
RaceScoreAnswer(i, questionType, freeTextAnswer) ==
    /\ race[i].pc = "idle"
    /\ race[i].round < MaxRounds
    /\ SetRace(i, StartCall(anchorEmbeddingsCache, CatalogOf(anchorSets), questionType,
                            freeTextAnswer),
               race[i].round + 1)
    /\ RaceUnchanged

\* the provider answers the pending embed call of invocation i
RaceEmbedResolves(i) ==
    /\ race[i].pc # "idle"
    /\ SetRace(i, ResumeOk(RaceMachine(i), CatalogOf(anchorSets), epsilon, temperature,
                           RaceEmbeddings(i)),
               race[i].round)
    /\ RaceUnchanged

RaceNext ==
    \/ \E i \in 1..MaxConcurrent, qt \in RaceTypes, t \in RaceAnswers :
           RaceScoreAnswer(i, qt, t)
    \/ \E i \in 1..MaxConcurrent : RaceEmbedResolves(i)

RaceSpec == RaceInit /\ [][RaceNext]_vars

RECURSIVE RunAlone(_, _, _, _, _)
\* the invocation m, run to its end with nothing beside it
RunAlone(m, p, catalog, eps, temp) ==
    IF m.pc = "idle" THEN m
    ELSE RunAlone(ResumeOk(m, catalog, eps, temp,
                           EmbedAll(p, m.calls[Len(m.calls)].texts)),
                  p, catalog, eps, temp)

\* how scoreAnswer(qt, t) ends when it is the only invocation
AloneOutcome(qt, t) ==
    RunAlone(StartCall(EmptyCache, CatalogOf(anchorSets), qt, t), provider,
             CatalogOf(anchorSets), epsilon, temperature).outcome

RaceEnded(i) == i \in 1..Len(race) /\ race[i].started /\ race[i].pc = "idle"

\* the anchor calls of invocation i: the (questionType, anchorSetIndex) of the
\* statements it had embedded
RaceAnchorCalls(i) ==
    {<<race[i].calls[k].texts[1][2], race[i].calls[k].texts[1][3]>> :
         k \in {n \in 1..Len(race[i].calls) : IsAnchorCall(race[i].calls[n])}}

\* every entry of the cache holds the embeddings of its own anchor set
EntriesHoldOwnSets ==
    LET catalog == CatalogOf(anchorSets)
    IN /\ \A k \in DOMAIN anchorEmbeddingsCache :
              \E a \in PairsOf(catalog) : cacheKey(a[1], a[2]) = k
       /\ \A a \in PairsOf(catalog) :
              cacheKey(a[1], a[2]) \in DOMAIN anchorEmbeddingsCache =>
                  anchorEmbeddingsCache[cacheKey(a[1], a[2])]
                      = EmbedAll(provider, InLevelOrder(catalog[a[1]][a[2] + 1]))

\* C28: under every interleaving of scoreAnswer invocations that run at the
\* same time on one SsrScorer, with a deterministic provider, an invocation
\* that has ended has ended as it does when it runs alone (the same
\* ScoreResult, or the same error), every cache entry holds the embeddings of
\* its own (questionType, anchorSetIndex) anchor set, and the calls an
\* invocation made to the provider are its answer and anchor sets of its own
\* question type, each at most once per invocation.
C28_ConcurrentCallsScoreAsAlone ==
    /\ \A i \in 1..Len(race) :
           RaceEnded(i) =>
               /\ race[i].outcome
                      = AloneOutcome(race[i].frame.questionType,
                                     race[i].frame.freeTextAnswer)
               /\ (race[i].outcome.status = "ok" =>
                      race[i].outcome.result
                          = ColdResult(provider, CatalogOf(anchorSets), epsilon,
                                       temperature, race[i].frame.questionType,
                                       race[i].frame.freeTextAnswer))
    /\ \A i \in 1..Len(race) :
           /\ \A k \in 2..Len(race[i].calls) :
                  /\ IsAnchorCall(race[i].calls[k])
                  /\ race[i].calls[k].texts[1][2] = race[i].frame.questionType
           /\ \A k, n \in 2..Len(race[i].calls) :
                  k # n => race[i].calls[k].texts # race[i].calls[n].texts
    /\ EntriesHoldOwnSets

\* two invocations on "ease" with different answers have both embedded the
\* first anchor set and have both returned
C28_Witness ==
    /\ RaceEnded(1) /\ RaceEnded(2)
    /\ race[1].frame.questionType = "ease" /\ race[2].frame.questionType = "ease"
    /\ race[1].frame.freeTextAnswer # race[2].frame.freeTextAnswer
    /\ race[1].outcome.status = "ok" /\ race[2].outcome.status = "ok"
    /\ <<"ease", 0>> \in RaceAnchorCalls(1) \cap RaceAnchorCalls(2)

(***************************************************************************)
(* The MCP browser server as a state machine: the embedding program calls   *)
(* setPageAndContext, clients call the four tools, and the browser answers  *)
(* the handlers that wait for it, in any order.                             *)
(***************************************************************************)
McpActions == {"goto", "click", "scroll"}
McpTargets == {NoTarget, UrlOn("shop.test"), UrlOn("evil.test"), Selector}
McpAssertions == {"urlContains", "textVisible", "elementVisible"}
TracePaths == {NoTrace, "trace.zip"}

McpInit ==
    /\ ScoringAtRest
    /\ voyage = NoVoyage
    /\ agent = NoAgent
    /\ ci = NoCi
    /\ fn = NoFn
    /\ race = NoRace
    /\ mcp = NoMcp

McpUnchanged == UNCHANGED <<scoringVars, voyage, agent, ci, fn, race>>

\* the handler may start: it is refused at once, or there is room for one
\* more call
MayCall(refused) ==
    \/ refused
    \/ mcp.accepted < MaxToolCalls /\ Len(mcp.pending) < MaxPending

SetPageAndContext(host, traceOutputPath) ==
    /\ mcp.sessions < MaxSessions
    /\ mcp' = setPageAndContext(mcp, host, {"shop.test"}, traceOutputPath)
    /\ McpUnchanged

BrowserObserve ==
    /\ MayCall(mcp.currentPage = NullRef)
    /\ mcp' = browser_observe(mcp)
    /\ McpUnchanged

BrowserAct(action, target, hasValue) ==
    /\ MayCall(mcp.currentPage = NullRef)
    /\ mcp' = browser_act(mcp, action, target, hasValue)
    /\ McpUnchanged

BrowserAssert(assertion, passed) ==
    /\ MayCall(mcp.currentPage = NullRef)
    /\ mcp' = browser_assert(mcp, assertion, passed)
    /\ McpUnchanged

BrowserEnd ==
    /\ MayCall(mcp.currentContext = NullRef)
    /\ mcp' = browser_end(mcp)
    /\ McpUnchanged

\* the browser answers the handler mcp.pending[k], or fails it
BrowserAnswers(k, throws, lands) ==
    /\ k \in 1..Len(mcp.pending)
    /\ mcp' = CASE mcp.pending[k].tool = "browser_observe" ->
                     browser_observe_done(mcp, k, throws)
                [] mcp.pending[k].tool = "browser_act" ->
                     browser_act_done(mcp, k, throws, lands)
                [] mcp.pending[k].tool = "browser_assert" ->
                     browser_assert_done(mcp, k, throws)
                [] OTHER -> browser_end_done(mcp, k, throws)
    /\ McpUnchanged

McpNext ==
    \/ \E path \in TracePaths : SetPageAndContext("shop.test", path)
    \/ BrowserObserve
    \/ \E action \in McpActions, target \in McpTargets, hasValue \in BOOLEAN :
           BrowserAct(action, target, hasValue)
    \/ \E assertion \in McpAssertions, passed \in BOOLEAN :
           BrowserAssert(assertion, passed)
    \/ BrowserEnd
    \/ \E k \in 1..MaxPending, throws \in BOOLEAN :
           BrowserAnswers(k, throws, "stay")

McpSpec == McpInit /\ [][McpNext]_vars

\* the session is closed: no page, no context, no trace path
SessionClosed(m) ==
    m.currentPage = NullRef /\ m.currentContext = NullRef /\ m.tracePath = NoTrace

EndCompleted(m) ==
    m.event = [step |-> "finish", tool |-> "browser_end", reply |-> "success"]

\* the reply of a tool that finds no page (browser_end: no context)
RefusalOf(tool) == IF tool = "browser_end" THEN NoContextError ELSE NoPageError

\* C30: once browser_end has completed successfully the session is closed
\* (page, context and trace path cleared); a tool call made while the
\* session is closed returns the 'no browser page/context available' error
\* and changes nothing, neither what was asked of the browser nor the step
\* log; and the session stays closed until setPageAndContext is called
\* again, which leaves the step log empty.
C30_ClosedAfterEnd ==
    [][/\ EndCompleted(mcp') => SessionClosed(mcp')
       /\ (SessionClosed(mcp) /\ mcp'.event.step = "start") =>
              /\ mcp'.event.reply = RefusalOf(mcp'.event.tool)
              /\ mcp' = [mcp EXCEPT !.event = mcp'.event]
       /\ (SessionClosed(mcp) /\ ~SessionClosed(mcp')) =>
              /\ mcp'.event.step = "set"
              /\ mcp'.stepLog = <<>>]_vars

\* browser_end has completed successfully, the step log ends with its entry,
\* and a tool called after it has been refused
C30_Witness ==
    /\ mcp.sessions > 0
    /\ SessionClosed(mcp)
    /\ mcp.stepLog # <<>>
    /\ mcp.stepLog[Len(mcp.stepLog)].action = "end"
    /\ mcp.stepLog[Len(mcp.stepLog)].outcome = "success"
    /\ mcp.event = [step |-> "start", tool |-> "browser_act", reply |-> NoPageError]

====
